---- MODULE Spec2Model ----
(***************************************************************************)
(* Model of mykubeapp's natural-language Git manifest pipeline:            *)
(* intent parsing (AI backend + fallback), repository clone into a         *)
(* workspace, manifest discovery, per-manifest kubectl apply, aggregation  *)
(* and workspace cleanup, plus the delete-command path of the AI service.  *)
(*                                                                         *)
(* Strings are sequences of tokens.  The tokens are chosen so that every   *)
(* pattern the code searches for (keywords, "http", ".git", the fence,     *)
(* "{", ...) is itself a sequence of whole tokens, so strings.Contains,    *)
(* HasPrefix, HasSuffix, ReplaceAll, Index, Fields and TrimSpace are       *)
(* computed on the token sequences exactly as Go computes them on bytes.   *)
(***************************************************************************)
EXTENDS Integers, Sequences, FiniteSets, TLC

(***************************************************************************)
(* Go's strings package on token sequences                                 *)
(***************************************************************************)
WhiteSpace == {" ", "\n", "\t", "\r"}

\* strings.Index(s, p) /= -1 at offset i (1-based)
MatchAt(s, p, i) ==
    /\ i >= 1
    /\ i + Len(p) - 1 <= Len(s)
    /\ SubSeq(s, i, i + Len(p) - 1) = p

Contains(s, p) == \E i \in 1..(Len(s) + 1) : MatchAt(s, p, i)

HasPrefix(s, p) == MatchAt(s, p, 1)

HasSuffix(s, p) == Len(p) <= Len(s) /\ MatchAt(s, p, Len(s) - Len(p) + 1)

TrimSuffix(s, p) == IF HasSuffix(s, p) THEN SubSeq(s, 1, Len(s) - Len(p)) ELSE s

\* strings.Index: 0 when absent, else the first 1-based offset
Index(s, p) ==
    IF Contains(s, p)
    THEN CHOOSE i \in 1..(Len(s) + 1) :
            MatchAt(s, p, i) /\ \A j \in 1..(i - 1) : ~MatchAt(s, p, j)
    ELSE 0

\* strings.LastIndex: 0 when absent, else the last 1-based offset
LastIndex(s, p) ==
    IF Contains(s, p)
    THEN CHOOSE i \in 1..(Len(s) + 1) :
            MatchAt(s, p, i) /\ \A j \in (i + 1)..(Len(s) + 1) : ~MatchAt(s, p, j)
    ELSE 0

\* strings.ReplaceAll(s, p, "") for a non-empty pattern p: leftmost,
\* non-overlapping occurrences are removed
RECURSIVE RemoveAll(_, _)
RemoveAll(s, p) ==
    IF s = <<>> THEN <<>>
    ELSE IF HasPrefix(s, p) THEN RemoveAll(SubSeq(s, Len(p) + 1, Len(s)), p)
    ELSE <<Head(s)>> \o RemoveAll(Tail(s), p)

RECURSIVE TrimLeft(_)
TrimLeft(s) ==
    IF s /= <<>> /\ Head(s) \in WhiteSpace THEN TrimLeft(Tail(s)) ELSE s

RECURSIVE TrimRight(_)
TrimRight(s) ==
    IF s /= <<>> /\ s[Len(s)] \in WhiteSpace
    THEN TrimRight(SubSeq(s, 1, Len(s) - 1)) ELSE s

TrimSpace(s) == TrimRight(TrimLeft(s))

\* strings.Split(s, sep) for a one-token separator: always at least one field
RECURSIVE Split(_, _)
Split(s, sep) ==
    IF ~Contains(s, <<sep>>) THEN <<s>>
    ELSE LET i == Index(s, <<sep>>)
         IN <<SubSeq(s, 1, i - 1)>> \o Split(SubSeq(s, i + 1, Len(s)), sep)

\* strings.Fields: maximal runs of non-whitespace tokens
RECURSIVE Fields(_)
Fields(s) ==
    LET t == TrimLeft(s)
    IN IF t = <<>> THEN <<>>
       ELSE LET ws == {i \in 1..Len(t) : t[i] \in WhiteSpace}
                e  == IF ws = {} THEN Len(t) + 1
                      ELSE CHOOSE i \in ws : \A j \in ws : i <= j
            IN <<SubSeq(t, 1, e - 1)>> \o Fields(SubSeq(t, e, Len(t)))

\* strings.ToLower, token by token: the upper-case tokens of the vocabulary
LowerTok(c) ==
    CASE c = "DELETE" -> "delete"
      [] c = "Apply"  -> "apply"
      [] c = "APP"    -> "app"
      [] c = "YAML"   -> "yaml"
      [] c = "YML"    -> "yml"
      [] c = "Notes"  -> "notes"
      [] OTHER        -> c

ToLower(s) == [i \in 1..Len(s) |-> LowerTok(s[i])]

\* strings.EqualFold
EqualFold(a, b) == ToLower(a) = ToLower(b)

AnyKeyword(s, kws) == \E k \in kws : Contains(s, k)


(***************************************************************************)
(* Vocabulary: the strings of the model as token sequences.  Korean        *)
(* keywords are single tokens written KO_<romanisation>.                   *)
(***************************************************************************)
Https  == <<"http", "s", ":", "/", "/">>
Http   == <<"http", ":", "/", "/">>
DotGit == <<".", "git">>
GithubCom    == <<"git", "hub", ".", "com">>
GitlabCom    == <<"git", "lab", ".", "com">>
BitbucketOrg == <<"bit", "bucket", ".", "org">>
Main == <<"main">>

\* repositories named in prompts, requests and backend answers
RepoR  == GithubCom \o <<"/", "o", "/", "r">>      \* github.com/o/r
RepoE  == GithubCom \o <<"/", "o", "/", "e">>      \* github.com/o/e
AppYaml == <<"app", ".", "yaml">>
NoYaml  == <<"no", ".", "yaml">>

\* ai_service.go:105
deleteKeywords == {<<"KO_sagje">>, <<"delete">>, <<"KO_jegeo">>, <<"remove">>, <<"KO_eobsae">>}
\* part_007:987, ai_service.go:467
gitKeywords == {<<"KO_repo", "KO_jitori">>, <<"KO_repo">>, <<"repo", "sitory">>, <<"repo">>,
                <<"git", "hub">>, <<"git", "lab">>, <<"bit", "bucket">>, <<"git">>}
\* ai_service.go:617, git_controller.go:415
applyKeywords == {<<"KO_jeogyong">>, <<"KO_baepo">>, <<"KO_saengseong">>,
                  <<"apply">>, <<"deploy">>, <<"create">>}
\* ai_service.go:618
showKeywords == {<<"KO_boyeo">>, <<"KO_pyosi">>, <<"KO_johoe">>,
                 <<"show">>, <<"display">>, <<"list">>}
\* ai_service.go:642, git_controller.go:424
dryRunKeywords == {<<"dry", "-", "run">>, <<"dry", "run">>, <<"KO_teseuteu">>,
                   <<"KO_simyulleisyeon">>, <<"test">>}
\* git_controller.go:460
branchKeywords == {<<"branch">>, <<"KO_beuraenchi">>}

HasHost(word) ==
    Contains(word, GithubCom) \/ Contains(word, GitlabCom) \/ Contains(word, BitbucketOrg)

(***************************************************************************)
(* model.GitParseResult.  Confidence is in tenths (0.5 is 5).              *)
(***************************************************************************)
ZeroParseResult ==
    [RepoURL |-> <<>>, Branch |-> <<>>, Filename |-> <<>>, Action |-> "",
     DryRun |-> FALSE, Namespace |-> "", Confidence |-> 0]

(***************************************************************************)
(* URL normalisation, one operator per copy in the code                    *)
(***************************************************************************)
\* faulty variant: the suffix is appended without looking at the url
AIService_normalizeRepoURL_AlwaysAppends(repoURL) ==
    LET u1 == IF ~HasPrefix(repoURL, Http) /\ ~HasPrefix(repoURL, Https)
              THEN Https \o repoURL ELSE repoURL
    IN u1 \o DotGit

AIService_normalizeRepoURL(repoURL) ==
    LET u1 == IF ~HasPrefix(repoURL, Http) /\ ~HasPrefix(repoURL, Https)
              THEN Https \o repoURL ELSE repoURL
    IN IF ~HasSuffix(u1, DotGit) THEN u1 \o DotGit ELSE u1

AIController_normalizeRepoURL(repoURL) ==
    LET u1 == IF ~HasPrefix(repoURL, Http) /\ ~HasPrefix(repoURL, Https)
              THEN Https \o repoURL ELSE repoURL
    IN IF ~HasSuffix(u1, DotGit) THEN u1 \o DotGit ELSE u1

GitController_normalizeRepoURL(repoURL) ==
    LET u1 == IF ~HasPrefix(repoURL, Http) /\ ~HasPrefix(repoURL, Https) /\ HasHost(repoURL)
              THEN Https \o repoURL ELSE repoURL
    IN IF ~HasSuffix(u1, DotGit) THEN u1 \o DotGit ELSE u1

(***************************************************************************)
(* The fallback parsers                                                    *)
(***************************************************************************)
\* first element of a sequence of words satisfying a test, <<>> when none
FirstHostWord(words) ==
    LET hits == {i \in 1..Len(words) : HasHost(words[i])}
    IN IF hits = {} THEN <<>> ELSE words[CHOOSE i \in hits : \A j \in hits : i <= j]

FirstYamlWord(words) ==
    LET hits == {i \in 1..Len(words) :
                    HasSuffix(words[i], <<".", "yaml">>) \/ HasSuffix(words[i], <<".", "yml">>)}
    IN IF hits = {} THEN <<>> ELSE words[CHOOSE i \in hits : \A j \in hits : i <= j]

\* the url built inline by the service's and the Git controller's fallback
InlineURL(word) ==
    LET w1 == IF ~HasPrefix(word, <<"http">>) THEN Https \o word ELSE word
    IN IF ~HasSuffix(w1, DotGit) THEN w1 \o DotGit ELSE w1

\* git_controller.go:461-468: the last word holding a branch keyword that has
\* a successor decides the branch
FallbackBranch(words) ==
    LET hits == {i \in 1..Len(words) :
                    /\ i + 1 <= Len(words)
                    /\ AnyKeyword(ToLower(words[i]), branchKeywords)}
    IN IF hits = {} THEN Main
       ELSE words[(CHOOSE i \in hits : \A j \in hits : j <= i) + 1]

GitController_fallbackParseGitPrompt(prompt) ==
    LET lowerPrompt == ToLower(prompt)
        words == Fields(prompt)
        host  == FirstHostWord(words)
    IN [RepoURL    |-> IF host = <<>> THEN <<>> ELSE InlineURL(host),
        Branch     |-> FallbackBranch(words),
        Filename   |-> FirstYamlWord(words),
        Action     |-> IF AnyKeyword(lowerPrompt, applyKeywords) THEN "apply" ELSE "show",
        DryRun     |-> AnyKeyword(lowerPrompt, dryRunKeywords),
        Namespace  |-> "",
        Confidence |-> IF host = <<>> THEN 5 ELSE 7]

AIController_fallbackParseGitPrompt(prompt) ==
    LET lowerPrompt == ToLower(prompt)
        words == Fields(prompt)
        host  == FirstHostWord(words)
    IN [RepoURL    |-> IF host = <<>> THEN <<>> ELSE AIController_normalizeRepoURL(host),
        Branch     |-> Main,
        Filename   |-> FirstYamlWord(words),
        Action     |-> IF AnyKeyword(lowerPrompt, {<<"KO_boyeo">>, <<"KO_pyosi">>, <<"show">>})
                       THEN "show" ELSE "apply",
        DryRun     |-> AnyKeyword(lowerPrompt, {<<"dry", "-", "run">>, <<"KO_teseuteu">>}),
        Namespace  |-> "",
        Confidence |-> 3]

AIService_fallbackParseGitPrompt(prompt) ==
    LET lowerPrompt == ToLower(prompt)
        words == Fields(prompt)
        host  == FirstHostWord(words)
    IN [RepoURL    |-> IF host = <<>> THEN <<>> ELSE InlineURL(host),
        Branch     |-> Main,
        Filename   |-> FirstYamlWord(words),
        Action     |-> IF AnyKeyword(lowerPrompt, applyKeywords) THEN "apply"
                       ELSE IF AnyKeyword(lowerPrompt, showKeywords) THEN "show"
                       ELSE "show",
        DryRun     |-> AnyKeyword(lowerPrompt, dryRunKeywords),
        Namespace  |-> "",
        Confidence |-> 5]


(***************************************************************************)
(* The text-generation backend's answer: sanitation and JSON decoding.     *)
(* A well-formed JSON member list is one token (J_...), whose decoded      *)
(* fields JsonBody gives; any other token between the braces is not JSON.  *)
(***************************************************************************)
\* a backtick is the token "BT"; the code fence is three of them
Fence == <<"BT", "BT", "BT">>

JsonBodies == {"J_apply", "J_file", "J_nourl", "J_empty", "J_default"}

JsonBody(b) ==
    CASE b = "J_apply" ->   \* {"repoUrl": "github.com/o/r", "action": "apply"}
           [ZeroParseResult EXCEPT !.RepoURL = RepoR, !.Action = "apply", !.Confidence = 9]
      [] b = "J_file" ->    \* a full answer naming a file, a branch and dry-run
           [ZeroParseResult EXCEPT !.RepoURL = Https \o RepoR \o DotGit, !.Branch = <<"dev">>,
                                   !.Filename = AppYaml, !.Action = "apply",
                                   !.DryRun = TRUE, !.Confidence = 9]
      [] b = "J_nourl" ->   \* {"repoUrl": "", "action": "apply"}
           [ZeroParseResult EXCEPT !.Action = "apply", !.Confidence = 2]
      [] b = "J_empty" ->   \* {"repoUrl": "github.com/o/e", "branch": "main"}
           [ZeroParseResult EXCEPT !.RepoURL = RepoE, !.Branch = Main, !.Confidence = 8]
      [] b = "J_default" -> \* the literal of git_controller.go:386
           [ZeroParseResult EXCEPT !.Branch = Main, !.Action = "show", !.Confidence = 3]

\* git_controller.go:386
DefaultJSON == <<"{", "J_default", "}">>

\* encoding/json.Unmarshal into a GitParseResult: ok iff the text is one
\* object, i.e. "{" members "}" with only whitespace around the members
Unmarshal(text) ==
    LET t     == TrimSpace(text)
        inner == IF Len(t) >= 2 THEN TrimSpace(SubSeq(t, 2, Len(t) - 1)) ELSE <<>>
        ok    == /\ Len(t) >= 2
                 /\ t[1] = "{"
                 /\ t[Len(t)] = "}"
                 /\ \/ inner = <<>>
                    \/ Len(inner) = 1 /\ inner[1] \in JsonBodies
    IN [ok |-> ok,
        value |-> IF ok /\ inner /= <<>> THEN JsonBody(inner[1]) ELSE ZeroParseResult]

RECURSIVE RemovePatterns(_, _)
RemovePatterns(s, patterns) ==
    IF patterns = <<>> THEN s
    ELSE RemovePatterns(RemoveAll(s, Head(patterns)), Tail(patterns))

\* git_controller.go:363-370, part_007:1187-1194
AdvancedPatterns ==
    << Fence \o <<"json">>, Fence \o <<"JSON">>, Fence,
       <<"BT", "json">>, <<"BT", "JSON">>, <<"BT">> >>

GitController_cleanAIResponseAdvanced(response) ==
    LET r1 == TrimSpace(RemovePatterns(response, AdvancedPatterns))
        startIdx == Index(r1, <<"{">>)
        endIdx   == LastIndex(r1, <<"}">>)
    IN IF startIdx = 0 \/ endIdx = 0 \/ endIdx <= startIdx
       THEN DefaultJSON
       ELSE TrimSpace(RemovePatterns(SubSeq(r1, startIdx, endIdx),
                                     << <<"\n">>, <<"\r">>, <<"\t">> >>))

AIController_cleanAIResponseAdvanced(response) ==
    LET r1 == TrimSpace(RemovePatterns(response, AdvancedPatterns))
        startIdx == Index(r1, <<"{">>)
        endIdx   == LastIndex(r1, <<"}">>)
    IN IF startIdx = 0 \/ endIdx = 0 \/ endIdx <= startIdx
       THEN <<>>
       ELSE TrimSpace(RemovePatterns(SubSeq(r1, startIdx, endIdx),
                                     << <<"\n">>, <<"\r">> >>))

\* faulty variant of cleanAIResponse: the object is not cut out of the text
AIService_cleanAIResponse_NoExtraction(response) ==
    TrimSpace(RemovePatterns(response, << Fence \o <<"json">>, Fence >>))

AIService_cleanAIResponse(response) ==
    LET r1 == TrimSpace(RemovePatterns(response, << Fence \o <<"json">>, Fence >>))
        startIdx == Index(r1, <<"{">>)
        endIdx   == LastIndex(r1, <<"}">>)
    IN IF startIdx /= 0 /\ endIdx /= 0 /\ endIdx > startIdx
       THEN SubSeq(r1, startIdx, endIdx)
       ELSE r1

(***************************************************************************)
(* Intent parsing.  api is the outcome of CallDeepSeekAPI: [err |-> TRUE]  *)
(* or [err |-> FALSE, text |-> response].  The result names the path       *)
(* taken: "model", "fallback", or "error" when an error is returned.       *)
(***************************************************************************)
ApiFailure == [err |-> TRUE, text |-> <<>>]
ApiAnswer(text) == [err |-> FALSE, text |-> text]

ParseError == [source |-> "error", result |-> ZeroParseResult]

GitController_parseGitPromptWithAI(prompt, api) ==
    IF api.err THEN ParseError
    ELSE LET dec == Unmarshal(GitController_cleanAIResponseAdvanced(api.text))
             v   == dec.value
         IN IF ~dec.ok
            THEN [source |-> "fallback", result |-> GitController_fallbackParseGitPrompt(prompt)]
            ELSE [source |-> "model",
                  result |-> [v EXCEPT
                      !.RepoURL = IF v.RepoURL /= <<>>
                                  THEN GitController_normalizeRepoURL(v.RepoURL) ELSE <<>>,
                      !.Branch  = IF v.Branch = <<>> THEN Main ELSE v.Branch]]

\* faulty variant of AIController.parseGitPromptWithAI: a decode failure is an error
AIController_parseGitPromptWithAI_NoFallback(prompt, api) ==
    IF api.err THEN ParseError
    ELSE LET dec == Unmarshal(AIController_cleanAIResponseAdvanced(api.text))
             v   == dec.value
         IN IF ~dec.ok
            THEN ParseError
            ELSE [source |-> "model",
                  result |-> [v EXCEPT
                      !.RepoURL = IF v.RepoURL /= <<>>
                                  THEN AIController_normalizeRepoURL(v.RepoURL) ELSE <<>>,
                      !.Branch  = IF v.Branch = <<>> THEN Main ELSE v.Branch,
                      !.Action  = IF v.Action = "" THEN "apply" ELSE v.Action]]

\* part_007:1145-1179
AIController_parseGitPromptWithAI(prompt, api) ==
    IF api.err THEN ParseError
    ELSE LET dec == Unmarshal(AIController_cleanAIResponseAdvanced(api.text))
             v   == dec.value
         IN IF ~dec.ok
            THEN [source |-> "fallback", result |-> AIController_fallbackParseGitPrompt(prompt)]
            ELSE [source |-> "model",
                  result |-> [v EXCEPT
                      !.RepoURL = IF v.RepoURL /= <<>>
                                  THEN AIController_normalizeRepoURL(v.RepoURL) ELSE <<>>,
                      !.Branch  = IF v.Branch = <<>> THEN Main ELSE v.Branch,
                      !.Action  = IF v.Action = "" THEN "apply" ELSE v.Action]]

\* AIService.ProcessGitPrompt after its Git-keyword gate (ai_service.go:525-547)
AIService_ProcessGitPrompt(prompt, api) ==
    IF ~AnyKeyword(ToLower(prompt), gitKeywords) THEN ParseError
    ELSE IF api.err THEN ParseError
    ELSE LET dec == Unmarshal(AIService_cleanAIResponse(api.text))
             src == IF dec.ok THEN "model" ELSE "fallback"
             v   == IF dec.ok THEN dec.value ELSE AIService_fallbackParseGitPrompt(prompt)
         IN [source |-> src,
             result |-> [v EXCEPT
                 !.RepoURL = IF v.RepoURL /= <<>>
                             THEN AIService_normalizeRepoURL(v.RepoURL) ELSE <<>>]]


(***************************************************************************)
(* GitService helpers                                                      *)
(***************************************************************************)
\* the tail of the three host patterns of git_service.go:258-262,
\* ([^/]+)/([^/]+?)(\.git)?/?$ : <<>> when the rest does not match
RepoNameOfRest(rest) ==
    LET r1 == IF rest /= <<>> /\ rest[Len(rest)] = "/" THEN SubSeq(rest, 1, Len(rest) - 1) ELSE rest
        slashes(x) == {i \in 1..Len(x) : x[i] = "/"}
        shape(x) == /\ Cardinality(slashes(x)) = 1
                    /\ 1 \notin slashes(x)
                    /\ Len(x) \notin slashes(x)
        r2 == IF HasSuffix(r1, DotGit) /\ shape(TrimSuffix(r1, DotGit))
              THEN TrimSuffix(r1, DotGit) ELSE r1
    IN IF shape(r2)
       THEN LET k == CHOOSE i \in slashes(r2) : TRUE
            IN SubSeq(r2, 1, k - 1) \o <<"-">> \o SubSeq(r2, k + 1, Len(r2))
       ELSE <<>>

HostMatches(repoURL, host) ==
    {i \in 1..Len(repoURL) :
        /\ MatchAt(repoURL, host, i)
        /\ i + Len(host) <= Len(repoURL)
        /\ repoURL[i + Len(host)] \in {"/", ":"}
        /\ RepoNameOfRest(SubSeq(repoURL, i + Len(host) + 1, Len(repoURL))) /= <<>>}

RECURSIVE TrimRightSlash(_)
TrimRightSlash(s) ==
    IF s /= <<>> /\ s[Len(s)] = "/" THEN TrimRightSlash(SubSeq(s, 1, Len(s) - 1)) ELSE s

extractRepoName(repoURL) ==
    LET hosts == <<GithubCom, GitlabCom, BitbucketOrg>>
        hit   == {h \in 1..3 : HostMatches(repoURL, hosts[h]) /= {}}
    IN IF hit /= {}
       THEN LET h == CHOOSE x \in hit : \A y \in hit : x <= y
                i == CHOOSE x \in HostMatches(repoURL, hosts[h]) :
                        \A y \in HostMatches(repoURL, hosts[h]) : x <= y
            IN RepoNameOfRest(SubSeq(repoURL, i + Len(hosts[h]) + 1, Len(repoURL)))
       ELSE IF Contains(repoURL, <<"/">>)
       THEN LET parts == Split(TrimRightSlash(repoURL), "/")
            IN IF Len(parts) >= 2 THEN TrimSuffix(parts[Len(parts)], DotGit) ELSE <<>>
       ELSE <<>>

\* filepath.Ext: the suffix from the last "."
Ext(name) ==
    LET i == LastIndex(name, <<".">>)
    IN IF i = 0 THEN <<>> ELSE SubSeq(name, i, Len(name))

isYamlFile(filename) ==
    LET ext == ToLower(Ext(filename))
    IN ext = <<".", "yaml">> \/ ext = <<".", "yml">>

\* git_service.go:306-312
k8sKinds ==
    { <<"Pod">>, <<"Service">>, <<"Deployment">>, <<"ConfigMap">>, <<"Secret">>,
      <<"Ingress">>, <<"PersistentVolume">>, <<"PersistentVolume", "Claim">>,
      <<"Service", "Account">>, <<"Role">>, <<"Role", "Binding">>, <<"Cluster", "Role">>,
      <<"Cluster", "Role", "Binding">>, <<"Namespace">>, <<"DaemonSet">>, <<"StatefulSet">>,
      <<"Job">>, <<"Cron", "Job">>, <<"Horizontal", "Pod", "Autoscaler">>, <<"NetworkPolicy">> }

isKubernetesYaml(content) ==
    /\ Contains(content, <<"apiVersion:">>)
    /\ Contains(content, <<"kind:">>)
    /\ \E kind \in k8sKinds : Contains(content, <<"kind:", " ">> \o kind)

\* faulty variant of removeDuplicates: nothing is dropped
removeDuplicates_KeepAll(items) == items

\* git_service.go:324-336: the first occurrence of each item, in order
RECURSIVE removeDuplicates(_)
removeDuplicates(items) ==
    IF items = <<>> THEN <<>>
    ELSE LET init == removeDuplicates(SubSeq(items, 1, Len(items) - 1))
             last == items[Len(items)]
         IN IF \E j \in 1..Len(init) : init[j] = last THEN init ELSE Append(init, last)

(***************************************************************************)
(* The remote repositories and what a clone of each puts in the workspace, *)
(* in filepath.Walk (lexical) order.                                       *)
(***************************************************************************)
Manifest(kind) == <<"apiVersion:", " ", "v1", "\n", "kind:", " ">> \o kind \o <<"\n">>

File(dir, name, readable, content) ==
    [Dir |-> dir, Name |-> name, Readable |-> readable, Content |-> content]

GitConfigYaml == File(".git", <<"config", ".", "yaml">>, TRUE, Manifest(<<"Service">>))
NotesYml      == File("", <<"notes", ".", "yml">>, TRUE, Manifest(<<"Widget">>))

FilesR ==
    << GitConfigYaml,
       File("", AppYaml, TRUE, Manifest(<<"Service">>)),
       File("", <<"locked", ".", "yaml">>, FALSE, Manifest(<<"Pod">>)),
       NotesYml,
       File("", <<"web", ".", "YML">>, TRUE, Manifest(<<"Deployment">>)) >>

FilesE == << GitConfigYaml, NotesYml, File("", <<"readme", ".", "md">>, TRUE, <<"hello">>) >>

NameR == <<"o", "-", "r">>
NameE == <<"o", "-", "e">>

RemoteNames == {NameR, NameE}

RemoteFiles(repoName) == IF repoName = NameR THEN FilesR ELSE FilesE

(***************************************************************************)
(* Discovery                                                               *)
(***************************************************************************)
GitYamlFile(f) ==
    [Path |-> <<f.Dir, f.Name>>, Content |-> f.Content,
     IsKubernetes |-> isKubernetesYaml(f.Content)]

\* files the walk visits: everything outside the .git directory
Walked(files) == SelectSeq(files, LAMBDA f : f.Dir /= ".git")

\* faulty variant of FindYamlFiles: the walk ends at the first file that
\* cannot be read
FindYamlFiles_StopsAtUnreadable(files) ==
    LET w    == Walked(files)
        bad  == {i \in 1..Len(w) : isYamlFile(w[i].Name) /\ ~w[i].Readable}
        upto == IF bad = {} THEN Len(w) ELSE (CHOOSE i \in bad : \A j \in bad : i <= j) - 1
        sel  == SelectSeq(SubSeq(w, 1, upto),
                          LAMBDA f : isYamlFile(f.Name) /\ isKubernetesYaml(f.Content))
    IN [i \in 1..Len(sel) |-> GitYamlFile(sel[i])]

\* faulty variant of FindYamlFiles: the classifier is not asked
FindYamlFiles_Unclassified(files) ==
    LET sel == SelectSeq(Walked(files), LAMBDA f : isYamlFile(f.Name) /\ f.Readable)
    IN [i \in 1..Len(sel) |-> GitYamlFile(sel[i])]

\* FindYamlFiles on an existing directory
FindYamlFiles(files) ==
    LET keep(f) == /\ isYamlFile(f.Name)
                   /\ f.Readable
                   /\ isKubernetesYaml(f.Content)
        sel == SelectSeq(Walked(files), keep)
    IN [i \in 1..Len(sel) |-> GitYamlFile(sel[i])]

\* faulty variant of GetSpecificYamlFile: a missing file is an empty list, not an error
GetSpecificYamlFile_EmptyOnMiss(files, filename) ==
    LET w    == Walked(files)
        hits == {i \in 1..Len(w) : EqualFold(w[i].Name, filename) /\ w[i].Readable}
    IN IF hits = {} THEN [err |-> "", file |-> <<>>]
       ELSE [err |-> "", file |-> <<GitYamlFile(w[CHOOSE i \in hits : \A j \in hits : i <= j])>>]

\* GetSpecificYamlFile on an existing directory:
\* [err |-> "", file |-> <<f>>], or err "read" / "notfound"
GetSpecificYamlFile(files, filename) ==
    LET w    == Walked(files)
        hits == {i \in 1..Len(w) : EqualFold(w[i].Name, filename)}
    IN IF hits = {} THEN [err |-> "notfound", file |-> <<>>]
       ELSE LET f == w[CHOOSE i \in hits : \A j \in hits : i <= j]
            IN IF ~f.Readable THEN [err |-> "read", file |-> <<>>]
               ELSE [err |-> "", file |-> <<GitYamlFile(f)>>]


(***************************************************************************)
(* KubeService.ApplyYaml and the kubectl output scraper                    *)
(***************************************************************************)
Verbs == {"created", "configured", "unchanged", "deleted"}

\* tokens that are not made of [a-zA-Z0-9.\-/] only
NonWord == WhiteSpace \cup {"error:", "(dry-run)"}

\* all matches of ([a-zA-Z0-9.\-/]+)\s+(created|configured|unchanged|deleted)
RECURSIVE ScanResources(_)
ScanResources(out) ==
    IF Len(out) < 3 THEN <<>>
    ELSE LET rest == TrimLeft(Tail(out))
         IN IF /\ out[1] \notin NonWord
               /\ out[2] \in WhiteSpace
               /\ rest /= <<>>
               /\ rest[1] \in Verbs
            THEN <<out[1]>> \o ScanResources(Tail(rest))
            ELSE ScanResources(Tail(out))

\* part_001:482-490: the scraper's own de-duplication
RECURSIVE uniqueResources(_)
uniqueResources(matches) ==
    IF matches = <<>> THEN <<>>
    ELSE LET init == uniqueResources(SubSeq(matches, 1, Len(matches) - 1))
             last == matches[Len(matches)]
         IN IF \E j \in 1..Len(init) : init[j] = last THEN init ELSE Append(init, last)

extractResourcesFromOutput(output) == uniqueResources(ScanResources(output))

\* what the operating system and kubectl do for one invocation
Env(tmpOk, exitOk, out) == [tmpOk |-> tmpOk, exitOk |-> exitOk, out |-> out]

OutSvc  == <<"service/my-svc", " ", "created", "\n">>
OutBoth == <<"deployment.apps/app", " ", "configured", "\n",
             "service/my-svc", " ", "unchanged", " ", "(dry-run)", "\n",
             "deployment.apps/app", " ", "unchanged", "\n">>

KubectlOutputs == {OutSvc, OutBoth}

ApplyEnvs ==
    {Env(FALSE, FALSE, <<>>), Env(TRUE, FALSE, <<"error:", " ", "invalid">>)}
        \cup {Env(TRUE, TRUE, o) : o \in KubectlOutputs}

Invocation(verb, target, ns, dryRun, ok) ==
    [verb |-> verb, target |-> target, ns |-> ns, dryRun |-> dryRun, ok |-> ok]

\* ApplyYaml(request) under env: the returned (result, err) and the kubectl
\* invocations made (none when the temporary file could not be written)
\* faulty variant of ApplyYaml: the dry-run flag is not passed on to kubectl
ApplyYaml_DropsDryRun(target, namespace, dryRun, env) ==
    IF ~env.tmpOk
    THEN [err |-> TRUE, Output |-> <<>>, Resources |-> <<>>, DryRun |-> FALSE, calls |-> <<>>]
    ELSE IF ~env.exitOk
    THEN [err |-> TRUE, Output |-> <<>>, Resources |-> <<>>, DryRun |-> FALSE,
          calls |-> <<Invocation("apply", target, namespace, FALSE, FALSE)>>]
    ELSE [err |-> FALSE, Output |-> env.out,
          Resources |-> extractResourcesFromOutput(env.out), DryRun |-> dryRun,
          calls |-> <<Invocation("apply", target, namespace, FALSE, TRUE)>>]

ApplyYaml(target, namespace, dryRun, env) ==
    IF ~env.tmpOk
    THEN [err |-> TRUE, Output |-> <<>>, Resources |-> <<>>, DryRun |-> FALSE, calls |-> <<>>]
    ELSE IF ~env.exitOk
    THEN [err |-> TRUE, Output |-> <<>>, Resources |-> <<>>, DryRun |-> FALSE,
          calls |-> <<Invocation("apply", target, namespace, dryRun, FALSE)>>]
    ELSE [err |-> FALSE, Output |-> env.out,
          Resources |-> extractResourcesFromOutput(env.out), DryRun |-> dryRun,
          calls |-> <<Invocation("apply", target, namespace, dryRun, TRUE)>>]

(***************************************************************************)
(* GitService.ApplyYamlFromGit: the loop body and the aggregate            *)
(***************************************************************************)
\* one iteration of git_service.go:182-212 on yamlFile with ApplyYaml's return
FileApplyResult(yamlFile, ret) ==
    [FilePath  |-> yamlFile.Path,
     Success   |-> ~ret.err,
     Error     |-> ret.err,
     Output    |-> IF ret.err THEN <<>> ELSE ret.Output,
     Resources |-> IF ret.err THEN <<>> ELSE ret.Resources]

\* faulty variant of GitApplyResult: successes counted per resource, not per file
GitApplyResult_CountsResources(yamlFiles, results, allResources, successCount, dryRun) ==
    [TotalFiles   |-> Len(yamlFiles),
     SuccessFiles |-> Len(allResources),
     FailedFiles  |-> Len(yamlFiles) - successCount,
     Results      |-> results,
     AllResources |-> removeDuplicates(allResources),
     DryRun       |-> dryRun]

\* git_service.go:214-222
GitApplyResult(yamlFiles, results, allResources, successCount, dryRun) ==
    [TotalFiles   |-> Len(yamlFiles),
     SuccessFiles |-> successCount,
     FailedFiles  |-> Len(yamlFiles) - successCount,
     Results      |-> results,
     AllResources |-> removeDuplicates(allResources),
     DryRun       |-> dryRun]


(***************************************************************************)
(* Inputs                                                                  *)
(***************************************************************************)
\* seconds the clock can reach
MaxTime == 1

Reqs == {"r1"}

UrlR == Https \o RepoR \o DotGit
UrlE == Https \o RepoE \o DotGit

\* bodies of POST /api/git/yaml and /api/git/apply
DirectRequest(url, filename, dryRun) ==
    [RepoURL |-> url, Branch |-> <<>>, Filename |-> filename, Namespace |-> "", DryRun |-> dryRun]

DirectRequests ==
    { DirectRequest(<<" ">>, <<>>, FALSE),
      DirectRequest(UrlR, <<>>, FALSE),
      DirectRequest(UrlR, <<"APP", ".", "YAML">>, TRUE),
      DirectRequest(UrlR, NoYaml, FALSE),
      DirectRequest(UrlR, <<"locked", ".", "yaml">>, FALSE),
      DirectRequest(UrlR, <<"Notes", ".", "yml">>, FALSE),
      DirectRequest(UrlE, <<>>, FALSE),
      DirectRequest(<<"foo">>, <<>>, FALSE) }

P_scenario == RepoR \o <<" ", "KO_ui", " ">> \o AppYaml \o <<" ", "KO_jeogyong">>
P_applyE   == <<"Apply", " ">> \o RepoE
P_delgit   == <<"DELETE", " ">> \o RepoR
P_del      == <<"delete", " ", "nginx">>
P_gen      == <<"create", " ", "nginx">>
P_norepo   == <<"deploy", " ", "repo">>
P_blank    == <<" ">>

Prompts == {P_scenario, P_applyE, P_delgit, P_del, P_gen, P_norepo, P_blank}

\* bodies of POST /api/ai/generate-apply (model.AIApplyRequest)
AIApplyRequests ==
    {[Prompt |-> p, Namespace |-> "", DryRun |-> d] : p \in Prompts, d \in BOOLEAN}
        \cup {[Prompt |-> P_del, Namespace |-> "dev", DryRun |-> FALSE],
              [Prompt |-> P_del, Namespace |-> "default", DryRun |-> FALSE]}

\* what the backend may answer to an intent-parsing request
ParseAnswers ==
    { <<"{", "J_apply", "}">>,
      Fence \o <<"json", "\n", "{", "\n", "J_file", "\n", "}", "\n">> \o Fence,
      <<"{", "J_nourl", "}">>,
      <<"Sure", " ", "{", "J_empty", "}", "\n">>,
      <<"Sorry">>,
      <<"{", "Sorry", "}">> }

ApiOutcomes(answers) == {ApiFailure} \cup {ApiAnswer(a) : a \in answers}

\* what the backend may answer to HandleDeleteCommand
DeleteAnswers ==
    { <<"service/a", "\n", " ", "deployment/b", " ", "\n", "\n", "service/a", "\n">>,
      <<"deployment/b">>,
      <<"\n">> }

(***************************************************************************)
(* State                                                                   *)
(***************************************************************************)
VARIABLES
    now,            \* time.Now().Unix()
    tempDirExists,  \* the root temp area <TempDir>/kubectl-git-repos exists
    disk,           \* the workspace directories that exist under the root
    req             \* per request: the handler's position and locals

vars == <<now, tempDirExists, disk, req>>

NoDir == <<>>

\* the HTTP answer; reason names the check that ended the request in an error
NoResponse ==
    [status |-> "none", code |-> 0, reason |-> "", aggregate |-> <<>>,
     resources |-> <<>>, dryRun |-> FALSE]

ErrorResponse(code, reason) ==
    [NoResponse EXCEPT !.status = "error", !.code = code, !.reason = reason]

OkResponse == [NoResponse EXCEPT !.status = "ok", !.code = 200]

IdleReq ==
    [pc |-> "idle", entry |-> "none", prompt |-> <<>>, body |-> DirectRequest(<<>>, <<>>, FALSE),
     api |-> ApiFailure, source |-> "none", intent |-> ZeroParseResult, route |-> "none", dryRun |-> FALSE,
     cloneDir |-> NoDir, repoDir |-> NoDir, deferAll |-> FALSE,
     yamlFiles |-> <<>>, results |-> <<>>, allResources |-> <<>>, successCount |-> 0,
     resources |-> <<>>, idx |-> 1, successResources |-> <<>>,
     kubectl |-> <<>>, clones |-> 0,
     lookup |-> "none", contextChan |-> <<>>, waited |-> 0, currentContext |-> "",
     cleanup |-> [called |-> FALSE, found |-> FALSE, err |-> FALSE],
     response |-> NoResponse]

Init ==
    /\ now = 0
    /\ tempDirExists = TRUE       \* NewGitService creates it (git_service.go:26)
    /\ disk = {}
    /\ req = [r \in Reqs |-> IdleReq]

(***************************************************************************)
(* Workspace release                                                       *)
(***************************************************************************)
\* faulty variant of Cleanup: the directory is left in place
Cleanup_Skipped(d, repoDir) == d

\* GitService.Cleanup: the directories left on disk
Cleanup(d, repoDir) ==
    IF repoDir /= NoDir /\ repoDir \in d THEN d \ {repoDir} ELSE d

\* faulty variant of CleanupError: a directory that is already gone is an error
CleanupError_WhenMissing(d, repoDir, removeOk) ==
    repoDir /= NoDir /\ (repoDir \notin d \/ ~removeOk)

\* GitService.Cleanup: the error returned, removeOk being os.RemoveAll's outcome
CleanupError(d, repoDir, removeOk) ==
    repoDir /= NoDir /\ repoDir \in d /\ ~removeOk

\* what the deferred Cleanup(repoDir) met; os.RemoveAll is taken to succeed
CleanupOutcome(d, repoDir) ==
    [called |-> repoDir /= NoDir,
     found  |-> repoDir /= NoDir /\ repoDir \in d,
     err    |-> CleanupError(d, repoDir, TRUE)]

\* the handler returns with the response: its deferred calls run, last first
\* (Cleanup(repoDir), then CleanupAll when handleGitRelatedPrompt deferred it)
ReturnFrom(r, rq, resp, d, rootExists) ==
    /\ req' = [req EXCEPT ![r] = [rq EXCEPT !.pc = "done", !.response = resp,
                                            !.cleanup = CleanupOutcome(d, rq.repoDir)]]
    /\ IF rq.deferAll /\ rootExists
       THEN disk' = {} /\ tempDirExists' = FALSE
       ELSE disk' = Cleanup(d, rq.repoDir) /\ tempDirExists' = rootExists

Return(r, rq, resp) == ReturnFrom(r, rq, resp, disk, tempDirExists)

Goto(r, rq) == req' = [req EXCEPT ![r] = rq]


(***************************************************************************)
(* Request entry: one action per HTTP handler                              *)
(***************************************************************************)
IsGitRelated(prompt) == AnyKeyword(ToLower(prompt), gitKeywords)

IsDeleteCommand(prompt) == AnyKeyword(ToLower(prompt), deleteKeywords)

BodyIntent(b) ==
    [ZeroParseResult EXCEPT !.RepoURL = b.RepoURL,
                            !.Branch = IF b.Branch = <<>> THEN Main ELSE b.Branch,
                            !.Filename = b.Filename, !.Namespace = b.Namespace,
                            !.DryRun = b.DryRun]

\* GitController.GetYamlFromGit up to the clone (git_controller.go:30-49)
GetYamlFromGit(r) ==
    /\ req[r].pc = "idle"
    /\ \E b \in DirectRequests :
         LET rq == [req[r] EXCEPT !.entry = "GetYamlFromGit", !.body = b]
         IN IF TrimSpace(b.RepoURL) = <<>>
            THEN Return(r, rq, ErrorResponse(400, "badrequest"))
            ELSE /\ Goto(r, [rq EXCEPT !.pc = "clone", !.route = "show",
                                       !.intent = BodyIntent(b)])
                 /\ UNCHANGED <<disk, tempDirExists>>
    /\ UNCHANGED now

\* GitController.ApplyYamlFromGit on request body b, up to the clone
\* (git_controller.go:98-117)
ApplyYamlFromGitOn(r, b) ==
    /\ req[r].pc = "idle"
    /\ LET rq == [req[r] EXCEPT !.entry = "ApplyYamlFromGit", !.body = b]
       IN IF TrimSpace(b.RepoURL) = <<>>
          THEN Return(r, rq, ErrorResponse(400, "badrequest"))
          ELSE /\ Goto(r, [rq EXCEPT !.pc = "clone", !.route = "apply",
                                     !.intent = BodyIntent(b), !.dryRun = b.DryRun])
               /\ UNCHANGED <<disk, tempDirExists>>
    /\ UNCHANGED now

ApplyYamlFromGit(r) == \E b \in DirectRequests : ApplyYamlFromGitOn(r, b)

\* GitController.ProcessGitWithAI up to the backend call (git_controller.go:172-188)
ProcessGitWithAI(r) ==
    /\ req[r].pc = "idle"
    /\ \E p \in Prompts :
         LET rq == [req[r] EXCEPT !.entry = "ProcessGitWithAI", !.prompt = p]
         IN IF TrimSpace(p) = <<>>
            THEN Return(r, rq, ErrorResponse(400, "badrequest"))
            ELSE Goto(r, [rq EXCEPT !.pc = "parse"]) /\ UNCHANGED <<disk, tempDirExists>>
    /\ UNCHANGED now

\* AIController.ProcessGitCommand up to the backend call (part_007:1349-1381)
ProcessGitCommand(r) ==
    /\ req[r].pc = "idle"
    /\ \E p \in Prompts :
         LET rq == [req[r] EXCEPT !.entry = "ProcessGitCommand", !.prompt = p]
         IN IF TrimSpace(p) = <<>> \/ ~IsGitRelated(p)
            THEN Return(r, rq, ErrorResponse(400, "badrequest"))
            ELSE Goto(r, [rq EXCEPT !.pc = "parse"]) /\ UNCHANGED <<disk, tempDirExists>>
    /\ UNCHANGED now

\* AIController.GenerateAndApplyEnhanced up to the first backend call
\* (part_007:971-1006, then ai_service.go:101-118)
GenerateAndApplyEnhancedOn(r, b) ==
    /\ req[r].pc = "idle"
    /\ LET rq == [req[r] EXCEPT !.entry = "GenerateAndApplyEnhanced", !.prompt = b.Prompt,
                                !.body = [DirectRequest(<<>>, <<>>, b.DryRun)
                                              EXCEPT !.Namespace = b.Namespace]]
       IN IF TrimSpace(b.Prompt) = <<>>
          THEN Return(r, rq, ErrorResponse(400, "badrequest"))
          ELSE /\ Goto(r, [rq EXCEPT !.pc =
                      IF IsGitRelated(b.Prompt) THEN "parse"
                      ELSE IF IsDeleteCommand(b.Prompt) THEN "delete_ai"
                      ELSE "generate_ai"])
               /\ UNCHANGED <<disk, tempDirExists>>
    /\ UNCHANGED now

GenerateAndApplyEnhanced(r) == \E b \in AIApplyRequests : GenerateAndApplyEnhancedOn(r, b)

(***************************************************************************)
(* Intent parsing and routing                                              *)
(***************************************************************************)
ParsePrompt(entry, prompt, api) ==
    CASE entry = "ProcessGitWithAI"         -> GitController_parseGitPromptWithAI(prompt, api)
      [] entry = "GenerateAndApplyEnhanced" -> AIController_parseGitPromptWithAI(prompt, api)
      [] OTHER                              -> AIService_ProcessGitPrompt(prompt, api)

\* the switch of git_controller.go:204-246
ActionRoute(action) ==
    IF action \in {"show", "list", "display"} THEN "show"
    ELSE IF action \in {"apply", "deploy", "create"} THEN "apply"
    ELSE "unsupported"

\* faulty variant of RepoURLMissing: the check is never taken
RepoURLMissing_Never(parseResult) == FALSE

\* git_controller.go:195-198, part_007:1028-1031
RepoURLMissing(parseResult) == parseResult.RepoURL = <<>>

\* the backend answers (or fails) and the handler runs on to the clone
Parse(r) ==
    /\ req[r].pc = "parse"
    /\ \E api \in ApiOutcomes(ParseAnswers) :
         LET rq0 == req[r]
             pr  == ParsePrompt(rq0.entry, rq0.prompt, api)
             rq  == [rq0 EXCEPT !.api = api, !.source = pr.source, !.intent = pr.result]
         IN IF pr.source = "error"
            THEN Return(r, rq, ErrorResponse(500, "parse"))
            ELSE IF rq0.entry = "ProcessGitCommand"
            THEN Return(r, rq, OkResponse)
            ELSE IF RepoURLMissing(pr.result)
            THEN Return(r, rq, ErrorResponse(400, "nourl"))
            ELSE IF rq0.entry = "ProcessGitWithAI"
            THEN IF ActionRoute(pr.result.Action) = "unsupported"
                 THEN Return(r, rq, ErrorResponse(400, "action"))
                 ELSE /\ Goto(r, [rq EXCEPT !.pc = "clone",
                                            !.route = ActionRoute(pr.result.Action),
                                            !.dryRun = pr.result.DryRun])
                      /\ UNCHANGED <<disk, tempDirExists>>
            ELSE \* handleGitRelatedPrompt: NewGitService, defer CleanupAll
                 /\ Goto(r, [rq EXCEPT !.pc = "clone", !.route = "apply", !.deferAll = TRUE,
                                       !.dryRun = pr.result.DryRun \/ rq0.body.DryRun])
                 /\ tempDirExists' = TRUE
                 /\ UNCHANGED disk
    /\ UNCHANGED now


(***************************************************************************)
(* Fetch: clone and discovery                                              *)
(***************************************************************************)
\* git can reach the remote: a URL with a scheme naming a known repository
CanClone(repoURL) ==
    /\ HasPrefix(repoURL, Http) \/ HasPrefix(repoURL, Https)
    /\ extractRepoName(repoURL) \in RemoteNames

\* GitService.CloneRepository and the caller's error check and defer.
\* A failed git clone leaves no directory behind (git removes what it created).
CloneRepository(r) ==
    /\ req[r].pc = "clone"
    /\ LET rq       == req[r]
           repoURL  == rq.intent.RepoURL
           repoName == extractRepoName(repoURL)
           cloneDir == <<repoName, now>>
           cleared  == disk \ {cloneDir}
       IN IF repoName = <<>>
          THEN Return(r, rq, ErrorResponse(500, "clone"))
          ELSE \E ok \in BOOLEAN :
                 /\ ok => CanClone(repoURL)
                 /\ IF ok
                    THEN /\ Goto(r, [rq EXCEPT !.pc = "fetch", !.cloneDir = cloneDir,
                                               !.repoDir = cloneDir, !.clones = @ + 1])
                         /\ disk' = cleared \cup {cloneDir}
                         /\ tempDirExists' = TRUE
                    ELSE ReturnFrom(r, [rq EXCEPT !.cloneDir = cloneDir, !.clones = @ + 1],
                                    ErrorResponse(500, "clone"), cleared, tempDirExists)
    /\ UNCHANGED now

\* the status of a failed file search / discovery, per handler
SearchErrorCode(entry) == IF entry = "ProcessGitWithAI" THEN 500 ELSE 404

\* GetSpecificYamlFile or FindYamlFiles, then the caller up to the first apply
Discover(r) ==
    /\ req[r].pc = "fetch"
    /\ LET rq     == req[r]
           exists == rq.repoDir \in disk
           files  == RemoteFiles(rq.repoDir[1])
           named  == rq.intent.Filename /= <<>>
           found  == GetSpecificYamlFile(files, rq.intent.Filename)
           yamlFiles == IF named THEN found.file ELSE FindYamlFiles(files)
           rq1    == [rq EXCEPT !.yamlFiles = yamlFiles]
       IN IF ~exists                     \* filepath.Walk reports the root's Lstat error
          THEN Return(r, rq, ErrorResponse(IF named THEN SearchErrorCode(rq.entry) ELSE 500,
                                           "walk"))
          ELSE IF named /\ found.err /= ""
          THEN Return(r, rq, ErrorResponse(SearchErrorCode(rq.entry), found.err))
          ELSE IF rq.route = "show"
          THEN Return(r, rq1, OkResponse)
          ELSE IF rq.entry = "GenerateAndApplyEnhanced" /\ Len(yamlFiles) = 0
          THEN Return(r, rq1, ErrorResponse(404, "nofiles"))      \* part_007:1066-1069
          ELSE /\ Goto(r, [rq1 EXCEPT !.pc = "apply"])
               /\ UNCHANGED <<disk, tempDirExists>>
    /\ UNCHANGED now

(***************************************************************************)
(* Execute and aggregate: GitService.ApplyYamlFromGit                      *)
(***************************************************************************)
\* faulty variant of ApplyNext: the first failed apply ends the request in an error
ApplyNext_StopsOnError(r) ==
    /\ req[r].pc = "apply"
    /\ Len(req[r].results) < Len(req[r].yamlFiles)
    /\ \E env \in ApplyEnvs :
         LET rq       == req[r]
             yamlFile == rq.yamlFiles[Len(rq.results) + 1]
             ret      == ApplyYaml(yamlFile.Path, rq.intent.Namespace, rq.dryRun, env)
             rq1      == [rq EXCEPT
                !.results      = Append(@, FileApplyResult(yamlFile, ret)),
                !.allResources = IF ret.err THEN @ ELSE @ \o ret.Resources,
                !.successCount = IF ret.err THEN @ ELSE @ + 1,
                !.kubectl      = @ \o ret.calls]
         IN IF ret.err
            THEN Return(r, rq1, ErrorResponse(500, "apply"))
            ELSE Goto(r, rq1) /\ UNCHANGED <<disk, tempDirExists>>
    /\ UNCHANGED now

\* faulty variant of ApplyNext: the artifacts are taken last first
ApplyNext_LastFirst(r) ==
    /\ req[r].pc = "apply"
    /\ Len(req[r].results) < Len(req[r].yamlFiles)
    /\ \E env \in ApplyEnvs :
         LET rq       == req[r]
             yamlFile == rq.yamlFiles[Len(rq.yamlFiles) - Len(rq.results)]
             ret      == ApplyYaml(yamlFile.Path, rq.intent.Namespace, rq.dryRun, env)
         IN Goto(r, [rq EXCEPT
                !.results      = Append(@, FileApplyResult(yamlFile, ret)),
                !.allResources = IF ret.err THEN @ ELSE @ \o ret.Resources,
                !.successCount = IF ret.err THEN @ ELSE @ + 1,
                !.kubectl      = @ \o ret.calls])
    /\ UNCHANGED <<now, disk, tempDirExists>>

\* one iteration of the loop: kubectl apply for the next artifact
ApplyNext(r) ==
    /\ req[r].pc = "apply"
    /\ Len(req[r].results) < Len(req[r].yamlFiles)
    /\ \E env \in ApplyEnvs :
         LET rq       == req[r]
             yamlFile == rq.yamlFiles[Len(rq.results) + 1]
             ret      == ApplyYaml(yamlFile.Path, rq.intent.Namespace, rq.dryRun, env)
         IN Goto(r, [rq EXCEPT
                !.results      = Append(@, FileApplyResult(yamlFile, ret)),
                !.allResources = IF ret.err THEN @ ELSE @ \o ret.Resources,
                !.successCount = IF ret.err THEN @ ELSE @ + 1,
                !.kubectl      = @ \o ret.calls])
    /\ UNCHANGED <<now, disk, tempDirExists>>

\* the loop is over: build the aggregate, answer, run the deferred cleanup
Finish(r) ==
    /\ req[r].pc = "apply"
    /\ Len(req[r].results) = Len(req[r].yamlFiles)
    /\ LET rq  == req[r]
           agg == GitApplyResult(rq.yamlFiles, rq.results, rq.allResources,
                                 rq.successCount, rq.dryRun)
       IN Return(r, rq, [OkResponse EXCEPT !.aggregate = <<agg>>,
                                           !.resources = agg.AllResources,
                                           !.dryRun = agg.DryRun])
    /\ UNCHANGED now

(***************************************************************************)
(* AIService.GenerateAndApplyYaml: the delete path and the generate path   *)
(***************************************************************************)
\* HandleDeleteCommand up to the loop (ai_service.go:356-400)
DeleteAI(r) ==
    /\ req[r].pc = "delete_ai"
    /\ \E api \in ApiOutcomes(DeleteAnswers) :
         IF api.err
         THEN Return(r, [req[r] EXCEPT !.api = api], ErrorResponse(500, "ai"))
         ELSE /\ Goto(r, [req[r] EXCEPT !.pc = "deleting", !.api = api,
                                        !.resources = Split(TrimSpace(api.text), "\n")])
              /\ UNCHANGED <<disk, tempDirExists>>
    /\ UNCHANGED now

\* faulty variant of DeleteNext: a failed deletion ends the loop
DeleteNext_StopsOnError(r) ==
    /\ req[r].pc = "deleting"
    /\ req[r].idx <= Len(req[r].resources)
    /\ LET rq       == req[r]
           resource == TrimSpace(rq.resources[rq.idx])
           ns       == IF rq.body.Namespace \notin {"", "default"} THEN rq.body.Namespace ELSE ""
       IN IF resource = <<>>
          THEN Goto(r, [rq EXCEPT !.idx = @ + 1])
          ELSE \E ok \in BOOLEAN :
                 Goto(r, [rq EXCEPT
                     !.idx = IF ok THEN @ + 1 ELSE Len(rq.resources) + 1,
                     !.kubectl = Append(@, Invocation("delete", resource, ns,
                                                      rq.body.DryRun, ok)),
                     !.successResources = IF ok THEN Append(@, resource) ELSE @])
    /\ UNCHANGED <<now, disk, tempDirExists>>

\* one iteration of the loop of ai_service.go:402-431
DeleteNext(r) ==
    /\ req[r].pc = "deleting"
    /\ req[r].idx <= Len(req[r].resources)
    /\ LET rq       == req[r]
           resource == TrimSpace(rq.resources[rq.idx])
           ns       == IF rq.body.Namespace \notin {"", "default"} THEN rq.body.Namespace ELSE ""
       IN IF resource = <<>>
          THEN Goto(r, [rq EXCEPT !.idx = @ + 1])
          ELSE \E ok \in BOOLEAN :
                 Goto(r, [rq EXCEPT
                     !.idx = @ + 1,
                     !.kubectl = Append(@, Invocation("delete", resource, ns,
                                                      rq.body.DryRun, ok)),
                     !.successResources = IF ok THEN Append(@, resource) ELSE @])
    /\ UNCHANGED <<now, disk, tempDirExists>>

\* ai_service.go:433-454
DeleteDone(r) ==
    /\ req[r].pc = "deleting"
    /\ req[r].idx > Len(req[r].resources)
    /\ Return(r, req[r], [OkResponse EXCEPT !.resources = req[r].successResources,
                                            !.dryRun = req[r].body.DryRun])
    /\ UNCHANGED now

\* GenerateKubernetesYaml: the backend writes the manifest (ai_service.go:120-128)
GenerateAI(r) ==
    /\ req[r].pc = "generate_ai"
    /\ \E ok \in BOOLEAN :
         IF ok
         THEN Goto(r, [req[r] EXCEPT !.pc = "generate_apply"]) /\ UNCHANGED <<disk, tempDirExists>>
         ELSE Return(r, req[r], ErrorResponse(500, "ai"))
    /\ UNCHANGED now

\* the generated manifest is applied (ai_service.go:130-163)
GenerateApply(r) ==
    /\ req[r].pc = "generate_apply"
    /\ \E env \in ApplyEnvs :
         LET ret == ApplyYaml(<<"", <<"generated">>>>, req[r].body.Namespace,
                              req[r].body.DryRun, env)
             rq  == [req[r] EXCEPT !.kubectl = @ \o ret.calls]
         IN IF ret.err
            THEN Return(r, rq, ErrorResponse(500, "apply"))
            ELSE Return(r, rq, [OkResponse EXCEPT !.resources = ret.Resources,
                                                  !.dryRun = ret.DryRun])
    /\ UNCHANGED now

(***************************************************************************)
(* AIService.QueryKubernetesAI: the context lookup races a timer           *)
(***************************************************************************)
\* seconds of time.After in the select (ai_service.go:193)
ContextTimeout == 3

\* what the lookup goroutine sends: the value after a GetContexts error, the
\* value when no context is current, or the current context's name
LookupValues == {"unknown", "default", "ctx-a"}

\* what the question may be
Questions == {<<" ">>, <<"why", " ", "pending">>}

\* AIController.QueryAI up to the select: the buffered channel is made and
\* the lookup goroutine started (part_007:1392-1406, ai_service.go:167-189)
QueryAI(r) ==
    /\ req[r].pc = "idle"
    /\ \E q \in Questions :
         LET rq == [req[r] EXCEPT !.entry = "QueryAI", !.prompt = q]
         IN IF TrimSpace(q) = <<>>
            THEN Return(r, rq, ErrorResponse(400, "badrequest"))
            ELSE /\ Goto(r, [rq EXCEPT !.pc = "query_wait", !.lookup = "running",
                                       !.contextChan = <<>>, !.waited = 0])
                 /\ UNCHANGED <<disk, tempDirExists>>
    /\ UNCHANGED now

\* the goroutine of ai_service.go:174-189 ends: it sends one value into the
\* channel of capacity 1, whether or not the request still waits for it
LookupDone(r) ==
    /\ req[r].lookup = "running"
    /\ \E v \in LookupValues :
         Goto(r, [req[r] EXCEPT !.lookup = "sent", !.contextChan = Append(@, v)])
    /\ UNCHANGED <<now, disk, tempDirExists>>

\* a second passes while the select waits; the timer is due after ContextTimeout
QueryTimerTick(r) ==
    /\ req[r].pc = "query_wait"
    /\ req[r].waited < ContextTimeout
    /\ Goto(r, [req[r] EXCEPT !.waited = @ + 1])
    /\ UNCHANGED <<now, disk, tempDirExists>>

\* faulty variant of QuerySelect: a plain receive, no timer case
QuerySelect_NoTimer(r) ==
    /\ req[r].pc = "query_wait"
    /\ req[r].contextChan /= <<>>
    /\ Goto(r, [req[r] EXCEPT !.pc = "query_call",
                              !.currentContext = Head(req[r].contextChan),
                              !.contextChan = Tail(@)])
    /\ UNCHANGED <<now, disk, tempDirExists>>

\* the select of ai_service.go:192-198: one ready case is taken, either one
\* when both are ready
QuerySelect(r) ==
    /\ req[r].pc = "query_wait"
    /\ \/ /\ req[r].contextChan /= <<>>
          /\ Goto(r, [req[r] EXCEPT !.pc = "query_call",
                                    !.currentContext = Head(req[r].contextChan),
                                    !.contextChan = Tail(@)])
       \/ /\ req[r].waited = ContextTimeout
          /\ Goto(r, [req[r] EXCEPT !.pc = "query_call", !.currentContext = "unknown"])
    /\ UNCHANGED <<now, disk, tempDirExists>>

\* the backend call with the context in the system prompt, and the answer
\* (ai_service.go:200-246, part_007:1407-1414)
QueryCall(r) ==
    /\ req[r].pc = "query_call"
    /\ \E ok \in BOOLEAN :
         IF ok
         THEN Return(r, req[r], OkResponse)
         ELSE Return(r, req[r], ErrorResponse(500, "ai"))
    /\ UNCHANGED now

(***************************************************************************)
(* Environment                                                             *)
(***************************************************************************)
\* GitController.CleanupGitTemp: GET /api/git/cleanup -> GitService.CleanupAll
CleanupGitTemp ==
    /\ tempDirExists
    /\ disk' = {}
    /\ tempDirExists' = FALSE
    /\ UNCHANGED <<now, req>>

Tick ==
    /\ now < MaxTime
    /\ now' = now + 1
    /\ UNCHANGED <<disk, tempDirExists, req>>

\* the response is delivered; the next request may arrive
Reset(r) ==
    /\ req[r].pc = "done"
    /\ req' = [req EXCEPT ![r] = IdleReq]
    /\ UNCHANGED <<now, disk, tempDirExists>>

Next ==
    \/ \E r \in Reqs : GetYamlFromGit(r)
    \/ \E r \in Reqs : ApplyYamlFromGit(r)
    \/ \E r \in Reqs : ProcessGitWithAI(r)
    \/ \E r \in Reqs : ProcessGitCommand(r)
    \/ \E r \in Reqs : GenerateAndApplyEnhanced(r)
    \/ \E r \in Reqs : Parse(r)
    \/ \E r \in Reqs : CloneRepository(r)
    \/ \E r \in Reqs : Discover(r)
    \/ \E r \in Reqs : ApplyNext(r)
    \/ \E r \in Reqs : Finish(r)
    \/ \E r \in Reqs : DeleteAI(r)
    \/ \E r \in Reqs : DeleteNext(r)
    \/ \E r \in Reqs : DeleteDone(r)
    \/ \E r \in Reqs : GenerateAI(r)
    \/ \E r \in Reqs : GenerateApply(r)
    \/ \E r \in Reqs : QueryAI(r)
    \/ \E r \in Reqs : LookupDone(r)
    \/ \E r \in Reqs : QueryTimerTick(r)
    \/ \E r \in Reqs : QuerySelect(r)
    \/ \E r \in Reqs : QueryCall(r)
    \/ \E r \in Reqs : Reset(r)
    \/ CleanupGitTemp
    \/ Tick

Spec == Init /\ [][Next]_vars

(***************************************************************************)
(* Two requests in flight: the repository without manifests fetched        *)
(* through POST /api/git/apply and through POST /api/ai/generate-apply     *)
(***************************************************************************)
ConcReqs == {"r1", "r2"}

ConcBody == DirectRequest(UrlE, <<>>, FALSE)

ConcPrompt == [Prompt |-> P_applyE, Namespace |-> "", DryRun |-> FALSE]

InitConc ==
    /\ now = 0
    /\ tempDirExists = TRUE
    /\ disk = {}
    /\ req = [r \in ConcReqs |-> IdleReq]

NextConc ==
    \/ \E r \in ConcReqs : ApplyYamlFromGitOn(r, ConcBody)
    \/ \E r \in ConcReqs : GenerateAndApplyEnhancedOn(r, ConcPrompt)
    \/ \E r \in ConcReqs : Parse(r)
    \/ \E r \in ConcReqs : CloneRepository(r)
    \/ \E r \in ConcReqs : Discover(r)
    \/ \E r \in ConcReqs : ApplyNext(r)
    \/ \E r \in ConcReqs : Finish(r)
    \/ \E r \in ConcReqs : Reset(r)
    \/ CleanupGitTemp
    \/ Tick

SpecConc == InitConc /\ [][NextConc]_vars

\* the timer runs and a ready select or a pending backend call is taken; the
\* lookup goroutine itself may hang for ever
FairSpec ==
    /\ Spec
    /\ \A r \in Reqs : /\ WF_vars(QueryTimerTick(r))
                       /\ WF_vars(QuerySelect(r))
                       /\ WF_vars(QueryCall(r))

\* a handler that has started a pipeline stage runs it to its end.  The
\* clone's condition is WF_vars(CloneRepository(r)) written out:
\* CloneRepository(r) is enabled exactly while pc is "clone", and each of its
\* steps leaves "clone".
PipelineFairSpec ==
    /\ Spec
    /\ \A r \in Reqs : /\ WF_vars(Parse(r))
                       /\ []<>(req[r].pc /= "clone")
                       /\ WF_vars(Discover(r))
                       /\ WF_vars(ApplyNext(r))
                       /\ WF_vars(Finish(r))

(***************************************************************************)
(* Single calls of the pure functions.  Each slot holds one call: the      *)
(* function, its argument, and the values returned so far (a normalizer    *)
(* is called a second time on its own result).                             *)
(***************************************************************************)
\* longest string of the exhaustive part of the arguments
MaxUrlLen == 3

\* repository URLs with and without scheme and suffix, and every string of
\* at most MaxUrlLen tokens
RepoURLInputs ==
    LET UrlTokens == {"http", "s", ":", "/", ".", "git", "hub", "com", "o"}
    IN UNION {[1..n -> UrlTokens] : n \in 0..MaxUrlLen} \cup
        {s \o b \o e : s \in {<<>>, Http, Https, <<"http">>},
                       b \in {RepoR, GitlabCom \o <<"/", "o", "/", "r">>, <<"o", "/", "r">>},
                       e \in {<<>>, DotGit, DotGit \o <<"/">>}}

Normalizers == {"AIService.normalizeRepoURL", "GitController.normalizeRepoURL",
                "AIController.normalizeRepoURL"}

normalizeRepoURL(fn, repoURL) ==
    CASE fn = "AIService.normalizeRepoURL"     -> AIService_normalizeRepoURL(repoURL)
      [] fn = "GitController.normalizeRepoURL" -> GitController_normalizeRepoURL(repoURL)
      [] fn = "AIController.normalizeRepoURL"  -> AIController_normalizeRepoURL(repoURL)

\* most words of an instruction
MaxWords == 3

\* words of the instructions: action and dry-run keywords in both cases,
\* repository tokens with and without scheme and suffix, a file name
InstructionWords ==
    {<<"apply">>, <<"Apply">>, <<"show">>, <<"KO_johoe">>, <<"test">>, <<"foo">>,
     RepoR, UrlE, <<"http", ":", "/">> \o RepoR, BitbucketOrg \o <<"/", "o">> \o DotGit,
     AppYaml}

RECURSIVE JoinWords(_)
JoinWords(ws) ==
    IF ws = <<>> THEN <<>>
    ELSE IF Len(ws) = 1 THEN ws[1]
    ELSE ws[1] \o <<" ">> \o JoinWords(Tail(ws))

Instructions ==
    {JoinWords(ws) : ws \in UNION {[1..n -> InstructionWords] : n \in 0..MaxWords}}

FallbackParsers == {"GitController.fallbackParseGitPrompt", "AIService.fallbackParseGitPrompt",
                    "AIController.fallbackParseGitPrompt"}

fallbackParseGitPrompt(fn, prompt) ==
    CASE fn = "GitController.fallbackParseGitPrompt" -> GitController_fallbackParseGitPrompt(prompt)
      [] fn = "AIService.fallbackParseGitPrompt"     -> AIService_fallbackParseGitPrompt(prompt)
      [] fn = "AIController.fallbackParseGitPrompt"  -> AIController_fallbackParseGitPrompt(prompt)

\* most lines of a file's content
MaxLines == 3

\* lines of the contents: the version line, kind lines whose value is on the
\* list, off the list, and off the list with a listed name as its beginning,
\* an indented kind line, a comment, another field
ContentLines ==
    {<<"apiVersion:", " ", "v1">>,
     <<"kind:", " ", "Service">>,
     <<"kind:", " ", "Widget">>,
     <<"kind:", " ", "Service", "Monitor">>,
     <<"kind:", " ", "Role", "Binding">>,
     <<" ", " ", "kind:", " ", "Deployment">>,
     <<"#", " ", "kind:", " ", "Pod">>,
     <<"name:", " ", "web">>}

RECURSIVE JoinLines(_)
JoinLines(ls) ==
    IF ls = <<>> THEN <<>> ELSE ls[1] \o <<"\n">> \o JoinLines(Tail(ls))

Contents ==
    {JoinLines(ls) : ls \in UNION {[1..n -> ContentLines] : n \in 0..MaxLines}}

\* the files a workspace may hold, in filepath.Walk (lexical) order, and the
\* workspaces: each file absent, readable or unreadable
WorkspaceFiles ==
    << File(".git", AppYaml, TRUE, Manifest(<<"Service">>)),
       File("", <<"APP", ".", "YAML">>, TRUE, Manifest(<<"Pod">>)),
       File("", AppYaml, TRUE, Manifest(<<"Service">>)),
       File("", <<"notes", ".", "yml">>, TRUE, Manifest(<<"Widget">>)),
       File("", <<"readme", ".", "md">>, TRUE, Manifest(<<"Job">>)),
       File("sub", AppYaml, TRUE, Manifest(<<"Deployment">>)) >>

Workspaces ==
    LET n == Len(WorkspaceFiles)
        held(st) == SelectSeq([i \in 1..n |-> i], LAMBDA i : st[i] /= "absent")
        ws(st) == [k \in 1..Len(held(st)) |->
                      [WorkspaceFiles[held(st)[k]] EXCEPT
                          !.Readable = st[held(st)[k]] = "readable"]]
    IN {ws(st) : st \in [1..n -> {"absent", "readable", "unreadable"}]}

\* arguments of GetSpecificYamlFile
FileSearches ==
    {[files |-> w, filename |-> f] :
        w \in Workspaces, f \in {AppYaml, <<"Notes", ".", "yml">>, NoYaml}}

\* backend answers that wrap an object in a code fence: text before, the
\* opening fence line, the object, the closing fence, text after.  One
\* object is laid out over several lines, one holds backticks in a string
\* value; two of the surrounding texts hold a brace.
FencedAnswers ==
    {[pre |-> pre, object |-> obj, wrapped |-> pre \o open \o obj \o close \o post, post |-> post] :
        pre   \in {<<>>, <<"\n">>, <<"Sure", " ">>, <<"Sure", " ", "{", "x", "}", " ">>},
        open  \in {Fence \o <<"json", "\n">>, Fence \o <<"JSON", "\n">>, Fence \o <<"\n">>},
        obj   \in {<<"{", "J_apply", "}">>,
                   <<"{", "\n", "\t", "J_file", "\n", "}">>,
                   <<"{", "J_a", "BT", "main", "BT", "J_b", "}">>},
        close \in {<<"\n">> \o Fence, Fence},
        post  \in {<<>>, <<"\n">>, <<" ", "Done", ".">>, <<" ", ":", "}">>}}

Sanitizers == {"AIService.cleanAIResponse", "GitController.cleanAIResponseAdvanced"}

cleanAIResponse(fn, response) ==
    CASE fn = "AIService.cleanAIResponse" -> AIService_cleanAIResponse(response)
      [] fn = "GitController.cleanAIResponseAdvanced" ->
            GitController_cleanAIResponseAdvanced(response)

Call(fn, input) == [pc |-> "call", fn |-> fn, input |-> input, outputs |-> <<>>]

Calls ==
    {Call(fn, u) : fn \in Normalizers, u \in RepoURLInputs}
        \cup {Call(fn, p) : fn \in FallbackParsers, p \in Instructions}
        \cup {Call("GitService.isKubernetesYaml", c) : c \in Contents}
        \cup {Call(fn, a) : fn \in Sanitizers, a \in FencedAnswers}
        \cup {Call("GitService.GetSpecificYamlFile", a) : a \in FileSearches}
        \cup {Call("GitService.FindYamlFiles", w) : w \in Workspaces}

InitCalls ==
    /\ now = 0
    /\ tempDirExists = TRUE
    /\ disk = {}
    /\ req \in [Reqs -> Calls]

\* normalizeRepoURL on the argument, then once more on what it returned
NormalizeRepoURL(r) ==
    LET c == req[r]
        arg == IF c.outputs = <<>> THEN c.input ELSE c.outputs[Len(c.outputs)]
    IN /\ c.fn \in Normalizers
       /\ Len(c.outputs) < 2
       /\ req' = [req EXCEPT ![r].outputs = Append(c.outputs, normalizeRepoURL(c.fn, arg)),
                             ![r].pc = "returned"]
       /\ UNCHANGED <<now, tempDirExists, disk>>

FallbackParseGitPrompt(r) ==
    LET c == req[r]
    IN /\ c.fn \in FallbackParsers
       /\ c.outputs = <<>>
       /\ req' = [req EXCEPT ![r].outputs = <<fallbackParseGitPrompt(c.fn, c.input)>>,
                             ![r].pc = "returned"]
       /\ UNCHANGED <<now, tempDirExists, disk>>

IsKubernetesYaml(r) ==
    LET c == req[r]
    IN /\ c.fn = "GitService.isKubernetesYaml"
       /\ c.outputs = <<>>
       /\ req' = [req EXCEPT ![r].outputs = <<isKubernetesYaml(c.input)>>,
                             ![r].pc = "returned"]
       /\ UNCHANGED <<now, tempDirExists, disk>>

CallGetSpecificYamlFile(r) ==
    LET c == req[r]
    IN /\ c.fn = "GitService.GetSpecificYamlFile"
       /\ c.outputs = <<>>
       /\ req' = [req EXCEPT
                     ![r].outputs = <<GetSpecificYamlFile(c.input.files, c.input.filename)>>,
                     ![r].pc = "returned"]
       /\ UNCHANGED <<now, tempDirExists, disk>>

CallFindYamlFiles(r) ==
    LET c == req[r]
    IN /\ c.fn = "GitService.FindYamlFiles"
       /\ c.outputs = <<>>
       /\ req' = [req EXCEPT ![r].outputs = <<FindYamlFiles(c.input)>>,
                             ![r].pc = "returned"]
       /\ UNCHANGED <<now, tempDirExists, disk>>

\* the sanitizer on the fenced answer and on the object alone
CleanAIResponse(r) ==
    LET c == req[r]
    IN /\ c.fn \in Sanitizers
       /\ c.outputs = <<>>
       /\ req' = [req EXCEPT ![r].outputs = <<cleanAIResponse(c.fn, c.input.wrapped),
                                              cleanAIResponse(c.fn, c.input.object)>>,
                             ![r].pc = "returned"]
       /\ UNCHANGED <<now, tempDirExists, disk>>

NextCalls ==
    \/ \E r \in Reqs : NormalizeRepoURL(r)
    \/ \E r \in Reqs : FallbackParseGitPrompt(r)
    \/ \E r \in Reqs : IsKubernetesYaml(r)
    \/ \E r \in Reqs : CleanAIResponse(r)
    \/ \E r \in Reqs : CallGetSpecificYamlFile(r)
    \/ \E r \in Reqs : CallFindYamlFiles(r)

SpecCalls == InitCalls /\ [][NextCalls]_vars

(***************************************************************************)
(* KubeService.ApplyYaml and DeleteYaml step by step, two calls at a time: *)
(* the temporary manifest file is written, kubectl runs, and the deferred  *)
(* os.Remove runs at the return.  disk holds the temporary files that      *)
(* exist, now is the clock that names them.  A failed os.WriteFile is      *)
(* taken to leave no file, and os.Remove of an existing file to succeed.   *)
(***************************************************************************)
\* the call starts: createTempYamlFile (part_001:442-455), then the kubectl
\* arguments are built (part_001:363-378, 420-429)
createTempYamlFile(r) ==
    /\ req[r].pc = "idle"
    /\ \E fn \in {"ApplyYaml", "DeleteYaml"}, ns \in {"", "dev"}, dryRun \in BOOLEAN,
          written \in BOOLEAN :
         LET tempFile == <<"kubectl-apply", now>>
             args == <<IF fn = "ApplyYaml" THEN "apply" ELSE "delete", "-f", tempFile>>
                       \o (IF ns /= "" THEN <<"-n", ns>> ELSE <<>>)
                       \o (IF fn = "ApplyYaml"
                           THEN (IF dryRun THEN <<"--dry-run=client">> ELSE <<>>) \o <<"-v=0">>
                           ELSE <<"--ignore-not-found=true">>)
             call == [pc |-> "kubectl", entry |-> fn,
                      request |-> [Namespace |-> ns, DryRun |-> dryRun],
                      tempFile |-> tempFile, args |-> args, err |-> FALSE]
         IN IF written
            THEN /\ req' = [req EXCEPT ![r] = call]
                 /\ disk' = disk \cup {tempFile}
            ELSE /\ req' = [req EXCEPT ![r] = [call EXCEPT !.pc = "done", !.tempFile = NoDir,
                                                          !.args = <<>>, !.err = TRUE]]
                 /\ UNCHANGED disk
    /\ UNCHANGED <<now, tempDirExists>>

\* faulty variant of ExecuteCommand: the file is removed only after a zero exit
ExecuteCommand_KeepsFileOnError(r) ==
    /\ req[r].pc = "kubectl"
    /\ \E exitOk \in BOOLEAN :
         /\ req' = [req EXCEPT ![r].pc = "done", ![r].err = ~exitOk]
         /\ disk' = IF exitOk THEN disk \ {req[r].tempFile} ELSE disk
    /\ UNCHANGED <<now, tempDirExists>>

\* kubectl exits and the call returns; the deferred os.Remove(tempFile) runs
\* on either return (part_001:355-360, 383-386; 412-417, 432-435)
ExecuteCommand(r) ==
    /\ req[r].pc = "kubectl"
    /\ \E exitOk \in BOOLEAN :
         /\ req' = [req EXCEPT ![r].pc = "done", ![r].err = ~exitOk]
         /\ disk' = disk \ {req[r].tempFile}
    /\ UNCHANGED <<now, tempDirExists>>

NextExec ==
    \/ \E r \in ConcReqs : createTempYamlFile(r)
    \/ \E r \in ConcReqs : ExecuteCommand(r)
    \/ \E r \in ConcReqs : Reset(r)
    \/ Tick

SpecExec == InitConc /\ [][NextExec]_vars

(***************************************************************************)
(* The kubectl web terminal (part_005).  req holds one TerminalSession per *)
(* connection.  The handler goroutine reads a message and runs HandleInput *)
(* on it; each call HandleInput makes for one character is an entry of     *)
(* ops, taken in order.  writers are the goroutines runCommand starts to   *)
(* forward a command's output.  Mutex is sync.Mutex: Lock waits until the  *)
(* mutex is free, whoever holds it.                                        *)
(***************************************************************************)
\* characters in one message, and kubectl commands started in one session
MaxInput == 2
MaxCommands == 1
\* characters the input buffer holds at most
MaxBuffer == 2

Sessions == {"s1"}

\* a printable word counts as one character; "BS" is backspace, "^C" is
\* byte 3, "\t" a control
\* character that is neither echoed nor stored
Chars == {"exit", "get", "help", " ", "\r", "BS", "^C", "\t"}

Printable == {"exit", "get", "help", " "}

TerminalInputs == UNION {[1..n -> Chars] : n \in 1..MaxInput}

Commands(input) == Len(SelectSeq(input, LAMBDA c : c = "get"))

NewSession ==
    [pc |-> "welcome", input |-> <<>>, ops |-> <<>>, InputBuffer |-> <<>>,
     IsClosed |-> FALSE, Mutex |-> "free", writers |-> <<>>]

InitTerm ==
    /\ now = 0
    /\ tempDirExists = TRUE
    /\ disk = {}
    /\ req = [s \in Sessions |-> NewSession]

\* TerminalSession.ExecuteCommand: the calls it makes, in order
TerminalSession_ExecuteCommand(command) ==
    IF TrimSpace(command) = <<>> THEN <<>>
    ELSE IF command \in {<<"exit">>, <<"quit">>} THEN <<"SendMessage", "Close">>
    ELSE IF command \in {<<"clear">>, <<"cls">>, <<"help">>} THEN <<"SendMessage">>
    ELSE <<"runCommand">>

\* KubectlTerminalHandler: the welcome message, sent before the read loop
Welcome(s) ==
    /\ req[s].pc = "welcome"
    /\ \E ok \in BOOLEAN :
         req' = [req EXCEPT ![s].pc = IF ok THEN "read" ELSE "closing",
                            ![s].ops = IF ok THEN <<>> ELSE <<"Close">>]
    /\ UNCHANGED <<now, tempDirExists, disk>>

\* conn.ReadMessage in the handler loop: a message arrives, or the read
\* fails (the peer left, or Close closed the connection) and the loop ends
ReadMessage(s) ==
    /\ req[s].pc = "read"
    /\ \/ /\ ~req[s].IsClosed
          /\ \E input \in TerminalInputs :
               /\ Len(req[s].writers) + Commands(input) <= MaxCommands
               /\ Len(req[s].InputBuffer) + Len(input) <= MaxBuffer
               /\ req' = [req EXCEPT ![s].pc = "lock", ![s].input = input]
       \/ req' = [req EXCEPT ![s].pc = "ended"]
    /\ UNCHANGED <<now, tempDirExists, disk>>

\* HandleInput: s.Mutex.Lock(), then the IsClosed test (part_005:150-155)
HandleInput(s) ==
    /\ req[s].pc = "lock"
    /\ req[s].Mutex = "free"
    /\ req' = [req EXCEPT ![s].pc = "handle",
                          ![s].Mutex = "handler",
                          ![s].input = IF req[s].IsClosed THEN <<>> ELSE @]
    /\ UNCHANGED <<now, tempDirExists, disk>>

\* the switch on one character of the input (part_005:158-183)
NextChar(s) ==
    /\ req[s].pc = "handle"
    /\ req[s].ops = <<>>
    /\ req[s].input /= <<>>
    /\ LET char == Head(req[s].input)
           buf  == req[s].InputBuffer
           ops  == CASE char = "\r" ->
                          (IF buf /= <<>>
                           THEN TerminalSession_ExecuteCommand(TrimSpace(buf)) \o <<"clear">>
                           ELSE <<>>) \o <<"SendMessage">>
                     [] char = "BS" -> IF buf /= <<>> THEN <<"SendMessage">> ELSE <<>>
                     [] char = "^C" -> <<"SendMessage", "clear">>
                     [] char \in Printable -> <<"SendMessage">>
                     [] OTHER -> <<>>
           buf1 == CASE char = "BS" /\ buf /= <<>> -> SubSeq(buf, 1, Len(buf) - 1)
                     [] char \in Printable -> Append(buf, char)
                     [] OTHER -> buf
       IN req' = [req EXCEPT ![s].input = Tail(@), ![s].ops = ops, ![s].InputBuffer = buf1]
    /\ UNCHANGED <<now, tempDirExists, disk>>

\* s.InputBuffer = ""
ClearInputBuffer(s) ==
    /\ req[s].ops /= <<>> /\ Head(req[s].ops) = "clear"
    /\ req' = [req EXCEPT ![s].ops = Tail(@), ![s].InputBuffer = <<>>]
    /\ UNCHANGED <<now, tempDirExists, disk>>

\* SendMessage on the handler goroutine: nothing once closed; a failed
\* write calls Close (part_005:298-309)
SendMessage(s) ==
    /\ req[s].ops /= <<>> /\ Head(req[s].ops) = "SendMessage"
    /\ \E ok \in BOOLEAN :
         req' = [req EXCEPT ![s].ops = IF req[s].IsClosed \/ ok
                                       THEN Tail(@) ELSE <<"Close">> \o Tail(@)]
    /\ UNCHANGED <<now, tempDirExists, disk>>

\* runCommand: the command starts and a goroutine forwards its output, or
\* it fails to start and the failure is sent (part_005:218-263)
runCommand(s) ==
    /\ req[s].ops /= <<>> /\ Head(req[s].ops) = "runCommand"
    /\ \E started \in BOOLEAN :
         req' = [req EXCEPT ![s].ops = IF started THEN Tail(@) ELSE <<"SendMessage">> \o Tail(@),
                            ![s].writers = IF started THEN Append(@, "SendMessage") ELSE @]
    /\ UNCHANGED <<now, tempDirExists, disk>>

\* Close called on the handler goroutine: Lock, IsClosed = true, the
\* connection is closed, Unlock (part_005:311-331)
Close(s) ==
    /\ req[s].ops /= <<>> /\ Head(req[s].ops) = "Close"
    /\ req[s].Mutex = "free"
    /\ req' = [req EXCEPT ![s].ops = Tail(@), ![s].IsClosed = TRUE,
                          ![s].pc = IF @ = "closing" THEN "read" ELSE @]
    /\ UNCHANGED <<now, tempDirExists, disk>>

\* HandleInput returns: the deferred Unlock; the loop reads again
Return_HandleInput(s) ==
    /\ req[s].pc = "handle"
    /\ req[s].ops = <<>>
    /\ req[s].input = <<>>
    /\ req' = [req EXCEPT ![s].pc = "read", ![s].Mutex = "free"]
    /\ UNCHANGED <<now, tempDirExists, disk>>

\* SendMessage on an output goroutine, which holds no lock
WriterSendMessage(s, i) ==
    /\ req[s].writers[i] = "SendMessage"
    /\ \E ok \in BOOLEAN :
         req' = [req EXCEPT ![s].writers[i] = IF req[s].IsClosed \/ ok THEN "done" ELSE "Close"]
    /\ UNCHANGED <<now, tempDirExists, disk>>

\* Close called on an output goroutine
WriterClose(s, i) ==
    /\ req[s].writers[i] = "Close"
    /\ req[s].Mutex = "free"
    /\ req' = [req EXCEPT ![s].writers[i] = "done", ![s].IsClosed = TRUE]
    /\ UNCHANGED <<now, tempDirExists, disk>>

\* the handler has returned; the next connection gets a new session
NewConnection(s) ==
    /\ req[s].pc = "ended"
    /\ \A i \in 1..Len(req[s].writers) : req[s].writers[i] = "done"
    /\ req' = [req EXCEPT ![s] = NewSession]
    /\ UNCHANGED <<now, tempDirExists, disk>>

NextTerm ==
    \/ \E s \in Sessions : Welcome(s)
    \/ \E s \in Sessions : ReadMessage(s)
    \/ \E s \in Sessions : HandleInput(s)
    \/ \E s \in Sessions : NextChar(s)
    \/ \E s \in Sessions : ClearInputBuffer(s)
    \/ \E s \in Sessions : SendMessage(s)
    \/ \E s \in Sessions : runCommand(s)
    \/ \E s \in Sessions : Close(s)
    \/ \E s \in Sessions : Return_HandleInput(s)
    \/ \E s \in Sessions : \E i \in 1..Len(req[s].writers) : WriterSendMessage(s, i)
    \/ \E s \in Sessions : \E i \in 1..Len(req[s].writers) : WriterClose(s, i)
    \/ \E s \in Sessions : NewConnection(s)
    \/ Tick

SpecTerm == InitTerm /\ [][NextTerm]_vars

(***************************************************************************)
(* Context management (part_001, part_006).  disk holds the kubeconfig     *)
(* file: the names of its contexts and its current-context.  Each kubectl  *)
(* config command reads or rewrites the file in one step; the handlers of  *)
(* concurrent requests take no lock between their commands.                *)
(***************************************************************************)
ContextNames == {"a", "b"}

Kubeconfig(contexts, current) == [contexts |-> contexts, current |-> current]

NotIssued == [ran |-> FALSE, wasCurrent |-> FALSE, listed |-> FALSE]

IdleContextReq ==
    [pc |-> "idle", entry |-> "none", ContextName |-> "", err |-> "", issued |-> NotIssued]

InitContexts ==
    /\ now = 0
    /\ tempDirExists = TRUE
    /\ disk \in {Kubeconfig(ContextNames, current) : current \in {"a", ""}}
    /\ req = [r \in ConcReqs |-> IdleContextReq]

ContextDone(r, rq, err) == req' = [req EXCEPT ![r] = [rq EXCEPT !.pc = "done", !.err = err]]

\* KubeService.UseContext: kubectl config use-context (part_001:187-198)
UseContext(r) ==
    /\ req[r].pc = "idle"
    /\ \E name \in ContextNames :
         LET rq == [req[r] EXCEPT !.entry = "UseContext", !.ContextName = name]
         IN IF name \in disk.contexts
            THEN ContextDone(r, rq, "") /\ disk' = [disk EXCEPT !.current = name]
            ELSE ContextDone(r, rq, "use") /\ UNCHANGED disk
    /\ UNCHANGED <<now, tempDirExists>>

\* KubeService.AddConfig: set-cluster, set-credentials, then kubectl config
\* set-context, which adds the context (part_001:59-89, 136-148)
AddConfig(r) ==
    /\ req[r].pc = "idle"
    /\ \E name \in ContextNames, ok \in BOOLEAN :
         LET rq == [req[r] EXCEPT !.entry = "AddConfig", !.ContextName = name]
         IN IF ok
            THEN ContextDone(r, rq, "") /\ disk' = [disk EXCEPT !.contexts = @ \cup {name}]
            ELSE ContextDone(r, rq, "add") /\ UNCHANGED disk
    /\ UNCHANGED <<now, tempDirExists>>

\* KubeController.DeleteContext and the name test of KubeService.DeleteContext
\* (part_006:116-129, part_001:204-207)
DeleteContext(r) ==
    /\ req[r].pc = "idle"
    /\ \E name \in ContextNames \cup {""} :
         LET rq == [req[r] EXCEPT !.entry = "DeleteContext", !.ContextName = name]
         IN IF name = ""
            THEN ContextDone(r, rq, "badrequest")
            ELSE req' = [req EXCEPT ![r] = [rq EXCEPT !.pc = "current"]]
    /\ UNCHANGED <<now, tempDirExists, disk>>

\* kubectl config current-context and the comparison; the command fails
\* when no current-context is set, and the comparison is then skipped
\* (part_001:210-216)
DeleteContext_CurrentContext(r) ==
    /\ req[r].pc = "current"
    /\ LET ok == disk.current /= ""
       IN IF ok /\ disk.current = req[r].ContextName
          THEN ContextDone(r, req[r], "current")
          ELSE req' = [req EXCEPT ![r].pc = "list"]
    /\ UNCHANGED <<now, tempDirExists, disk>>

\* GetContexts and the search for the name (part_001:219-235)
DeleteContext_GetContexts(r) ==
    /\ req[r].pc = "list"
    /\ \E ok \in BOOLEAN :
         IF ~ok THEN ContextDone(r, req[r], "list")
         ELSE IF req[r].ContextName \notin disk.contexts
         THEN ContextDone(r, req[r], "notexist")
         ELSE req' = [req EXCEPT ![r].pc = "delete"]
    /\ UNCHANGED <<now, tempDirExists, disk>>

\* kubectl config delete-context; issued records what the file held when
\* the command ran (part_001:245-248)
DeleteContext_Run(r) ==
    /\ req[r].pc = "delete"
    /\ LET name == req[r].ContextName
           rq   == [req[r] EXCEPT !.issued = [ran        |-> TRUE,
                                              wasCurrent |-> disk.current = name,
                                              listed     |-> name \in disk.contexts]]
       IN IF name \in disk.contexts
          THEN ContextDone(r, rq, "") /\ disk' = [disk EXCEPT !.contexts = @ \ {name}]
          ELSE ContextDone(r, rq, "delete") /\ UNCHANGED disk
    /\ UNCHANGED <<now, tempDirExists>>

\* the response is delivered; the next request may arrive
ContextReset(r) ==
    /\ req[r].pc = "done"
    /\ req' = [req EXCEPT ![r] = IdleContextReq]
    /\ UNCHANGED <<now, tempDirExists, disk>>

NextContexts ==
    \/ \E r \in ConcReqs : UseContext(r)
    \/ \E r \in ConcReqs : AddConfig(r)
    \/ \E r \in ConcReqs : DeleteContext(r)
    \/ \E r \in ConcReqs : DeleteContext_CurrentContext(r)
    \/ \E r \in ConcReqs : DeleteContext_GetContexts(r)
    \/ \E r \in ConcReqs : DeleteContext_Run(r)
    \/ \E r \in ConcReqs : ContextReset(r)

SpecContexts == InitContexts /\ [][NextContexts]_vars

(***************************************************************************)
(* Properties                                                              *)
(***************************************************************************)
\* the requests that have returned
Returned == {r \in Reqs : req[r].pc = "done"}

\* the requests that returned an aggregate of GitService.ApplyYamlFromGit
Aggregated == {r \in Returned : req[r].response.aggregate /= <<>>}

Aggregate(r) == req[r].response.aggregate[1]

CountWhere(seq, P(_)) == Cardinality({i \in 1..Len(seq) : P(seq[i])})

Succeeded(fileResult) == fileResult.Success

Failed(fileResult) == ~fileResult.Success

\* C1: the aggregate of ApplyYamlFromGit counts every input artifact once:
\* SuccessFiles + FailedFiles = TotalFiles, TotalFiles is the number of
\* artifacts handed in, Results holds one entry per artifact (in input order),
\* and the two counters are the numbers of succeeded and failed entries.
C1_AggregateAccounting ==
    \A r \in Aggregated :
        LET a == Aggregate(r)
            n == Len(req[r].yamlFiles)
        IN /\ a.SuccessFiles + a.FailedFiles = a.TotalFiles
           /\ a.TotalFiles = n
           /\ Len(a.Results) = n
           /\ \A i \in 1..n : a.Results[i].FilePath = req[r].yamlFiles[i].Path
           /\ a.SuccessFiles = CountWhere(a.Results, Succeeded)
           /\ a.FailedFiles = CountWhere(a.Results, Failed)

\* C1 happens: two artifacts were handed in and both applies failed
C1_AllFailed ==
    \E r \in Aggregated :
        /\ Aggregate(r).TotalFiles = 2
        /\ Aggregate(r).FailedFiles = 2
        /\ Aggregate(r).SuccessFiles = 0

\* the resource identifiers of the successful outcomes, in execution order
RECURSIVE SuccessfulIds(_)
SuccessfulIds(results) ==
    IF results = <<>> THEN <<>>
    ELSE SuccessfulIds(SubSeq(results, 1, Len(results) - 1))
            \o (IF results[Len(results)].Success
                THEN results[Len(results)].Resources ELSE <<>>)

Elems(seq) == {seq[i] : i \in 1..Len(seq)}

FirstPos(seq, x) == CHOOSE i \in 1..Len(seq) : seq[i] = x /\ \A j \in 1..(i - 1) : seq[j] /= x

\* C2: AllResources holds no identifier twice, holds exactly the identifiers
\* of the successful outcomes, and lists them by first occurrence in
\* execution order; a failed artifact contributes no identifier.
C2_AllResourcesIsOrderedUnion ==
    \A r \in Aggregated :
        LET a   == Aggregate(r)
            all == a.AllResources
            ids == SuccessfulIds(a.Results)
        IN /\ \A i, j \in 1..Len(all) : i /= j => all[i] /= all[j]
           /\ Elems(all) = Elems(ids)
           /\ \A i, j \in 1..Len(all) : i < j => FirstPos(ids, all[i]) < FirstPos(ids, all[j])
           /\ \A i \in 1..Len(a.Results) : a.Results[i].Error => a.Results[i].Resources = <<>>

\* C2 happens: two successful artifacts both report service/my-svc, the
\* second after a new identifier
C2_SharedResource ==
    \E r \in Aggregated :
        /\ Len(Aggregate(r).Results) = 2
        /\ Aggregate(r).Results[1].Resources = <<"service/my-svc">>
        /\ Aggregate(r).Results[2].Resources = <<"deployment.apps/app", "service/my-svc">>
        /\ Aggregate(r).AllResources = <<"service/my-svc", "deployment.apps/app">>

C4_FailureIsData ==
    [][\A r \in Reqs :
         req[r].pc = "apply" =>
            \/ req'[r] = req[r]
            \/ /\ req'[r].pc = "apply"
               /\ Len(req'[r].results) = Len(req[r].results) + 1
               /\ SubSeq(req'[r].results, 1, Len(req[r].results)) = req[r].results
               /\ LET k == Len(req'[r].results)
                  IN /\ req'[r].results[k].FilePath = req[r].yamlFiles[k].Path
                     /\ req'[r].results[k].Success = ~req'[r].results[k].Error
            \/ /\ req'[r].pc = "done"
               /\ Len(req[r].results) = Len(req[r].yamlFiles)
               /\ req'[r].response.status = "ok"
               /\ req'[r].response.aggregate /= <<>>
               /\ req'[r].response.aggregate[1].Results = req[r].results]_vars

\* C4 happens: the first apply failed, the second artifact was still applied
\* and the request returned a successful aggregate
C4_ContinuedAfterFailure ==
    \E r \in Aggregated :
        /\ req[r].response.status = "ok"
        /\ Len(Aggregate(r).Results) = 2
        /\ Aggregate(r).Results[1].Error
        /\ Aggregate(r).Results[2].Success

\* the entry points that parse a prompt and then run the pipeline
PipelineEntries == {"ProcessGitWithAI", "GenerateAndApplyEnhanced"}

\* C5: a prompt-driven pipeline request whose parsed repository URL is empty
\* has returned an error, and made no clone and no kubectl invocation.
C5_EmptyUrlAborts ==
    \A r \in Reqs :
        (/\ req[r].entry \in PipelineEntries
         /\ req[r].source \in {"model", "fallback"}
         /\ req[r].intent.RepoURL = <<>>)
        => /\ req[r].pc = "done"
           /\ req[r].response.status = "error"
           /\ req[r].clones = 0
           /\ req[r].cloneDir = NoDir
           /\ req[r].kubectl = <<>>

\* C5 happens: the fallback parser found no URL in a generate-apply prompt
C5_FallbackFoundNoUrl ==
    \E r \in Returned :
        /\ req[r].entry = "GenerateAndApplyEnhanced"
        /\ req[r].source = "fallback"
        /\ req[r].intent.RepoURL = <<>>
        /\ req[r].response.code = 400

\* discovery ran on the cloned workspace of a fetch-and-apply request with
\* no filename and found no manifest
ZeroDiscovered(r) ==
    /\ req[r].route = "apply"
    /\ req[r].intent.Filename = <<>>
    /\ req[r].repoDir /= NoDir
    /\ req[r].response.reason /= "walk"
    /\ FindYamlFiles(RemoteFiles(req[r].repoDir[1])) = <<>>

\* C6: a fetch-and-apply request without a filename whose discovery finds
\* zero manifests returns a successful aggregate with TotalFiles = 0, on
\* every entry point that runs the pipeline.
C6_ZeroManifestsSucceed ==
    \A r \in Returned :
        ZeroDiscovered(r)
        => /\ req[r].response.status = "ok"
           /\ req[r].response.aggregate /= <<>>
           /\ req[r].response.aggregate[1].TotalFiles = 0

\* the clone stage of the request failed
CloneFailed(r) ==
    \/ req[r].response.reason = "clone"
    \/ req[r].cloneDir /= NoDir /\ req[r].repoDir = NoDir

\* a filename was asked for and no file of the cloned workspace has that name
NamedFileMissing(r) ==
    /\ req[r].repoDir /= NoDir
    /\ req[r].intent.Filename /= <<>>
    /\ LET files == RemoteFiles(req[r].repoDir[1])
       IN \A i \in 1..Len(files) :
            files[i].Dir /= ".git" => ~EqualFold(files[i].Name, req[r].intent.Filename)

\* C7: a request whose clone failed, or whose named file is not in the
\* workspace, returns one top-level error: no aggregate is built and no
\* kubectl apply is made.
C7_FetchFailureAborts ==
    \A r \in Returned :
        (CloneFailed(r) \/ NamedFileMissing(r))
        => /\ req[r].response.status = "error"
           /\ req[r].response.aggregate = <<>>
           /\ req[r].results = <<>>
           /\ req[r].kubectl = <<>>

\* C7 happens: the apply endpoint was asked for no.yaml, which the
\* repository does not hold
C7_NamedFileNotFound ==
    \E r \in Returned :
        /\ req[r].entry = "ApplyYamlFromGit"
        /\ req[r].intent.Filename = NoYaml
        /\ NamedFileMissing(r)
        /\ req[r].response.code = 404

\* the requests whose prompt has been through intent parsing
Parsed == {r \in Reqs : req[r].source /= "none"}

\* the backend text as the entry point's sanitiser leaves it
Sanitised(r) ==
    CASE req[r].entry = "ProcessGitWithAI" ->
            GitController_cleanAIResponseAdvanced(req[r].api.text)
      [] req[r].entry = "GenerateAndApplyEnhanced" ->
            AIController_cleanAIResponseAdvanced(req[r].api.text)
      [] OTHER -> AIService_cleanAIResponse(req[r].api.text)

C9_DeleteIntentFirst ==
    \A r \in Reqs :
        (req[r].entry = "GenerateAndApplyEnhanced" /\ IsDeleteCommand(req[r].prompt))
        => /\ req[r].pc \in {"delete_ai", "deleting", "done"}
           /\ req[r].source = "none"
           /\ req[r].cloneDir = NoDir
           /\ \A i \in 1..Len(req[r].kubectl) : req[r].kubectl[i].verb = "delete"

\* the requests inside or past the loop of HandleDeleteCommand
Deleting ==
    {r \in Reqs : /\ req[r].entry = "GenerateAndApplyEnhanced"
                  /\ ~IsGitRelated(req[r].prompt)
                  /\ IsDeleteCommand(req[r].prompt)
                  /\ req[r].pc \in {"deleting", "done"}
                  /\ ~req[r].api.err}

\* the identifiers the backend listed, one per line
Listed(r) == Split(TrimSpace(req[r].api.text), "\n")

\* the non-empty identifiers among the first n listed, trimmed, in order
Wanted(r, n) ==
    LET ids == Listed(r)
        idx == {i \in 1..n : TrimSpace(ids[i]) /= <<>>}
        nth(k) == CHOOSE i \in idx : Cardinality({j \in idx : j < i}) = k - 1
    IN [k \in 1..Cardinality(idx) |-> TrimSpace(ids[nth(k)])]

\* the targets of the invocations that succeeded, in order
Deleted(calls) ==
    LET ok == SelectSeq(calls, LAMBDA c : c.ok)
    IN [k \in 1..Len(ok) |-> ok[k].target]

\* C10: on the delete path every non-empty identifier passed so far has had
\* exactly one kubectl delete, in list order, whatever the earlier outcomes;
\* the successful resources are exactly those whose delete succeeded; and
\* the request returns only after the whole list.
C10_EveryIdentifierDeletedOnce ==
    \A r \in Deleting :
        LET n      == IF req[r].pc = "done" THEN Len(Listed(r)) ELSE req[r].idx - 1
            wanted == Wanted(r, n)
        IN /\ req[r].idx - 1 = n
           /\ Len(req[r].kubectl) = Len(wanted)
           /\ \A k \in 1..Len(wanted) :
                /\ req[r].kubectl[k].verb = "delete"
                /\ req[r].kubectl[k].target = wanted[k]
           /\ req[r].successResources = Deleted(req[r].kubectl)
           /\ req[r].pc = "done"
              => /\ req[r].response.status = "ok"
                 /\ req[r].response.resources = Deleted(req[r].kubectl)

\* C10 happens: three identifiers, the first deletion failed, the later
\* ones were still attempted and the last succeeded
C10_ContinuedAfterFailedDelete ==
    \E r \in Deleting :
        /\ req[r].pc = "done"
        /\ Len(req[r].kubectl) = 3
        /\ ~req[r].kubectl[1].ok
        /\ req[r].kubectl[3].ok
        /\ req[r].response.resources /= <<>>

\* C11: the select of QueryKubernetesAI leaves with exactly one context
\* value: a value the lookup delivered, or "unknown" once the timer is due
\* ("unknown" whenever nothing was delivered by then); the wait never
\* exceeds the timeout; and a waiting request always reaches the backend
\* call, even when the lookup never ends.
C11_ContextLookupBounded ==
    /\ [][\A r \in Reqs :
            (req[r].pc = "query_wait" /\ req'[r].pc /= "query_wait")
            => /\ req'[r].pc = "query_call"
               /\ \/ /\ req[r].contextChan /= <<>>
                     /\ req'[r].currentContext = Head(req[r].contextChan)
                  \/ /\ req[r].waited = ContextTimeout
                     /\ req'[r].currentContext = "unknown"]_vars
    /\ [][\A r \in Reqs :
            req[r].pc = "query_call" => req'[r].currentContext = req[r].currentContext]_vars
    /\ [](\A r \in Reqs : req[r].pc = "query_wait" => req[r].waited <= ContextTimeout)
    /\ \A r \in Reqs : (req[r].pc = "query_wait") ~> (req[r].pc = "query_call")

\* C11 happens: the timer fired with the lookup still running, and the
\* request is at the backend call with the context "unknown"
C11_TimedOut ==
    \E r \in Reqs :
        /\ req[r].pc = "query_call"
        /\ req[r].lookup = "running"
        /\ req[r].waited = ContextTimeout
        /\ req[r].currentContext = "unknown"

\* C12: Cleanup of a workspace that is already gone is a no-op without an
\* error: a request that returns after its workspace was purged leaves the
\* disk as it was, its deferred Cleanup reports no error, and a request
\* purged during the apply loop still returns its successful aggregate;
\* a second Cleanup of the same workspace changes nothing and reports no
\* error whatever os.RemoveAll would do.
C12_CleanupIdempotent ==
    /\ [][\A r \in Reqs :
            (/\ req[r].pc /= "done" /\ req'[r].pc = "done"
             /\ req[r].repoDir /= NoDir /\ req[r].repoDir \notin disk)
            => /\ req'[r].cleanup = [called |-> TRUE, found |-> FALSE, err |-> FALSE]
               /\ disk' = disk
               /\ tempDirExists' = tempDirExists
               /\ req[r].pc = "apply"
                  => /\ req'[r].response.status = "ok"
                     /\ req'[r].response.aggregate /= <<>>]_vars
    /\ [](\A r \in Reqs :
            req[r].repoDir /= NoDir
            => LET once == Cleanup(disk, req[r].repoDir)
               IN /\ Cleanup(once, req[r].repoDir) = once
                  /\ \A removeOk \in BOOLEAN : ~CleanupError(once, req[r].repoDir, removeOk))

\* C12 happens: the root temp area was purged while the artifacts were being
\* applied; the request returned its aggregate and its Cleanup found nothing
C12_PurgedDuringApply ==
    \E r \in Aggregated :
        /\ req[r].cleanup.called
        /\ ~req[r].cleanup.found
        /\ req[r].response.status = "ok"
        /\ Len(Aggregate(r).Results) = 2

\* the request holds a workspace: it cloned one and has not returned
HoldsWorkspace(r) == req[r].pc \in {"fetch", "apply"} /\ req[r].repoDir /= NoDir

\* C13: when a request returns, the workspace another in-flight request
\* holds (a different directory) is still on disk afterwards; only the
\* administrative purge removes another request's workspace.
C13_CompletionSparesOthers ==
    [][\A r, o \in DOMAIN req :
         (/\ r /= o
          /\ req[r].pc /= "done" /\ req'[r].pc = "done"
          /\ HoldsWorkspace(o)
          /\ req[o].repoDir \in disk
          /\ req[o].repoDir /= req'[r].cloneDir)
         => req[o].repoDir \in disk']_vars

\* C14: two requests that hold a workspace at the same time hold different
\* directories, and a clone never starts on (clears) the directory another
\* in-flight request holds.
C14_DistinctWorkspaces ==
    /\ [](\A r, o \in DOMAIN req :
            (r /= o /\ HoldsWorkspace(r) /\ HoldsWorkspace(o))
            => req[r].repoDir /= req[o].repoDir)
    /\ [][\A r, o \in DOMAIN req :
            (/\ r /= o
             /\ req[r].pc = "clone"
             /\ HoldsWorkspace(o)
             /\ req[o].repoDir \in disk)
            => /\ req'[r].cloneDir /= req[o].repoDir
               /\ req[o].repoDir \in disk']_vars

\* C15: each of the three normalizeRepoURL copies returns its own result
\* unchanged when called on it: normalize(normalize(u)) = normalize(u) for
\* every argument u.
C15_NormalizeIdempotent ==
    \A r \in DOMAIN req :
        (req[r].fn \in Normalizers /\ Len(req[r].outputs) = 2)
            => req[r].outputs[2] = req[r].outputs[1]

\* a bare host path was given scheme and suffix and normalised again
C15_NormalisedTwice ==
    \E r \in DOMAIN req :
        /\ req[r].fn = "GitController.normalizeRepoURL"
        /\ req[r].input = RepoR
        /\ Len(req[r].outputs) = 2
        /\ req[r].outputs[1] = UrlR

\* the fallback parsers' calls that have returned, and their intents
FallbackReturned ==
    {r \in DOMAIN req : req[r].fn \in FallbackParsers /\ req[r].outputs /= <<>>}

FallbackIntent(r) == req[r].outputs[1]

\* the whitespace-delimited tokens of an instruction that name a known host
HostTokens(prompt) ==
    LET words == Fields(prompt)
    IN {i \in 1..Len(words) : HasHost(words[i])}

\* C16: an instruction with a token that contains github.com, gitlab.com or
\* bitbucket.org gets from every fallback parser a non-empty RepoURL that
\* holds the first such token, starts with http:// or https:// and ends
\* with .git.
C16_HostTokenGivesSchemeAndSuffix ==
    \A r \in FallbackReturned :
        HostTokens(req[r].input) /= {}
            => LET words == Fields(req[r].input)
                   first == words[CHOOSE i \in HostTokens(req[r].input) :
                                     \A j \in HostTokens(req[r].input) : i <= j]
                   url   == FallbackIntent(r).RepoURL
               IN /\ url /= <<>>
                  /\ Contains(url, first)
                  /\ HasPrefix(url, Http) \/ HasPrefix(url, Https)
                  /\ HasSuffix(url, DotGit)

\* the values of the kind fields of a content: what follows "kind:" on the
\* lines that start with it, indented or not
KindValues(content) ==
    LET lines == Split(content, "\n")
        kindLines == {i \in 1..Len(lines) : HasPrefix(TrimSpace(lines[i]), <<"kind:">>)}
    IN {TrimSpace(Tail(TrimSpace(lines[i]))) : i \in kindLines}

\* C17: isKubernetesYaml returns true only for a content that holds the
\* apiVersion: and kind: markers and has a kind field whose value is one of
\* the listed kinds; a content none of whose kind values is listed is
\* rejected.
C17_KindValueOnAllowList ==
    \A r \in DOMAIN req :
        (req[r].fn = "GitService.isKubernetesYaml" /\ req[r].outputs = <<TRUE>>)
            => /\ Contains(req[r].input, <<"apiVersion:">>)
               /\ Contains(req[r].input, <<"kind:">>)
               /\ KindValues(req[r].input) \cap k8sKinds /= {}

\* the natural-language Git requests that run the pipeline: POST /api/git/ai
\* and POST /api/ai/generate-apply with a Git prompt
PipelineRequest(rq) ==
    \/ rq.entry = "ProcessGitWithAI"
    \/ rq.entry = "GenerateAndApplyEnhanced" /\ IsGitRelated(rq.prompt)

\* the pipeline state a request is in.  Aggregation is the last part of the
\* step that leaves ExecutingArtifacts (Finish), so Aggregating is passed
\* within that step.
Stage(rq) ==
    CASE rq.pc = "idle"              -> "Idle"
      [] rq.pc = "parse"             -> "ParsingIntent"
      [] rq.pc \in {"clone", "fetch"} -> "FetchingArtifacts"
      [] rq.pc = "apply"             -> "ExecutingArtifacts"
      [] rq.pc = "done"              -> IF rq.response.status = "ok" THEN "Done" ELSE "Aborted"
      [] OTHER                       -> "other"

ClaimedTransitions ==
    {<<"Idle", "ParsingIntent">>,
     <<"ParsingIntent", "Aborted">>, <<"ParsingIntent", "FetchingArtifacts">>,
     <<"FetchingArtifacts", "FetchingArtifacts">>,
     <<"FetchingArtifacts", "Aborted">>, <<"FetchingArtifacts", "ExecutingArtifacts">>,
     <<"ExecutingArtifacts", "ExecutingArtifacts">>,
     <<"ExecutingArtifacts", "Done">>}

\* a step of a pipeline request.  A request refused at validation (blank
\* prompt, 400) never starts the pipeline and is not counted; the step from
\* Done or Aborted that frees the slot for the next request is not a step of
\* the request.
PipelineStep(r) ==
    /\ req'[r] /= req[r]
    /\ req[r].pc /= "done"
    /\ PipelineRequest(req'[r])
    /\ ~(req[r].pc = "idle" /\ req'[r].response.reason = "badrequest")

\* every request that is in the pipeline returns, with a success or an error
PipelineEnds ==
    /\ \A r \in Reqs :
          (PipelineRequest(req[r]) /\ req[r].pc \notin {"idle", "done"}) ~> (req[r].pc = "done")
    /\ [](\A r \in Reqs : (PipelineRequest(req[r]) /\ req[r].pc = "done")
                               => Stage(req[r]) \in {"Done", "Aborted"})
    /\ [][\A r \in Reqs : (PipelineRequest(req[r]) /\ req[r].pc = "done")
                               => req'[r] \in {req[r], IdleReq}]_vars

C19_MutationKeywordDecidesAction ==
    \A r \in FallbackReturned :
        FallbackIntent(r).Action =
            IF AnyKeyword(ToLower(req[r].input), applyKeywords) THEN "apply"
            ELSE IF AnyKeyword(ToLower(req[r].input), showKeywords) THEN "show"
            ELSE "show"

\* C20: every intent of a fallback parser carries one and the same
\* confidence, between 0.3 and 0.5, whatever the instruction holds and
\* whether or not a repository URL was found.
C20_FixedLowConfidence ==
    \E c \in 3..5 : \A r \in FallbackReturned : FallbackIntent(r).Confidence = c

\* C21: after intent parsing, by the model path or the fallback path, the
\* intent's Branch is not empty; on the model path it is the branch the
\* backend's object gave, and "main" when it gave none.
C21_BranchNeverEmpty ==
    \A r \in Reqs :
        req[r].source \in {"model", "fallback"}
            => /\ req[r].intent.Branch /= <<>>
               /\ req[r].source = "model"
                    => LET given == Unmarshal(Sanitised(r)).value.Branch
                       IN req[r].intent.Branch = IF given = <<>> THEN Main ELSE given

\* the positions, in walk order, of the files outside .git whose name is
\* the wanted one, ignoring case
NameMatches(files, filename) ==
    {i \in 1..Len(files) : files[i].Dir /= ".git" /\ EqualFold(files[i].Name, filename)}

\* C22: GetSpecificYamlFile answers with the first file in walk order,
\* outside .git, whose name is the wanted one ignoring case; nothing after
\* that hit is looked at (a later match is never returned, not even when the
\* first one cannot be read); the not-found error is returned exactly when
\* no file has the name.
C22_FirstMatchOrNotFound ==
    \A r \in DOMAIN req :
        (req[r].fn = "GitService.GetSpecificYamlFile" /\ req[r].outputs /= <<>>)
            => LET files == req[r].input.files
                   hits  == NameMatches(files, req[r].input.filename)
                   first == files[CHOOSE i \in hits : \A j \in hits : i <= j]
                   out   == req[r].outputs[1]
               IN /\ out.err = "notfound" <=> hits = {}
                  /\ (hits /= {} /\ first.Readable)
                        => /\ out.err = ""
                           /\ out.file = <<[Path |-> <<first.Dir, first.Name>>,
                                            Content |-> first.Content,
                                            IsKubernetes |-> isKubernetesYaml(first.Content)]>>
                  /\ (hits /= {} /\ ~first.Readable) => (out.err = "read" /\ out.file = <<>>)

\* app.yaml was asked for; APP.YAML comes first in the walk and is returned,
\* though app.yaml itself and sub/app.yaml are there too
C22_FirstOfSeveral ==
    \E r \in DOMAIN req :
        /\ req[r].fn = "GitService.GetSpecificYamlFile"
        /\ req[r].outputs /= <<>>
        /\ req[r].input.filename = AppYaml
        /\ Cardinality(NameMatches(req[r].input.files, AppYaml)) = 3
        /\ req[r].outputs[1].err = ""
        /\ req[r].outputs[1].file[1].Path = <<"", <<"APP", ".", "YAML">> >>

\* the positions of the files FindYamlFiles is to return: outside .git, with
\* a .yaml or .yml extension in any case, readable, and classified as a
\* Kubernetes manifest
Discoverable(files) ==
    {i \in 1..Len(files) :
        /\ files[i].Dir /= ".git"
        /\ \/ HasSuffix(ToLower(files[i].Name), <<".", "yaml">>)
           \/ HasSuffix(ToLower(files[i].Name), <<".", "yml">>)
        /\ files[i].Readable
        /\ isKubernetesYaml(files[i].Content)}

\* the k-th smallest member of a set of positions
NthOf(K, k) == CHOOSE i \in K : Cardinality({j \in K : j < i}) = k - 1

\* C23: FindYamlFiles returns exactly the discoverable files, in walk
\* order; a file that cannot be read is left out and the files after it are
\* still returned.
C23_DiscoverySkipsUnreadable ==
    \A r \in DOMAIN req :
        (req[r].fn = "GitService.FindYamlFiles" /\ req[r].outputs /= <<>>)
            => LET files == req[r].input
                   K     == Discoverable(files)
                   out   == req[r].outputs[1]
               IN /\ Len(out) = Cardinality(K)
                  /\ \A k \in 1..Len(out) :
                        /\ out[k].Path = <<files[NthOf(K, k)].Dir, files[NthOf(K, k)].Name>>
                        /\ out[k].Content = files[NthOf(K, k)].Content
                        /\ out[k].IsKubernetes

\* an unreadable app.yaml lies between APP.YAML and sub/app.yaml, and both
\* of those are returned
C23_SkippedInTheMiddle ==
    \E r \in DOMAIN req :
        /\ req[r].fn = "GitService.FindYamlFiles"
        /\ req[r].outputs /= <<>>
        /\ \E i \in 1..Len(req[r].input) :
              /\ req[r].input[i].Dir = "" /\ req[r].input[i].Name = AppYaml
              /\ ~req[r].input[i].Readable
        /\ Len(req[r].outputs[1]) = 2
        /\ req[r].outputs[1][1].Path = <<"", <<"APP", ".", "YAML">> >>
        /\ req[r].outputs[1][2].Path = <<"sub", AppYaml>>

C25_SequentialInDiscoveryOrder ==
    /\ [](\A r \in Reqs :
            req[r].pc \in {"apply", "done"}
                => /\ Len(req[r].results) <= Len(req[r].yamlFiles)
                   /\ \A i \in 1..Len(req[r].results) :
                         req[r].results[i].FilePath = req[r].yamlFiles[i].Path)
    /\ [](\A r \in Aggregated :
            /\ Len(Aggregate(r).Results) = Len(req[r].yamlFiles)
            /\ \A i \in 1..Len(req[r].yamlFiles) :
                  Aggregate(r).Results[i].FilePath = req[r].yamlFiles[i].Path)
    /\ [][\A r \in Reqs :
            (req[r].pc = "apply" /\ req'[r].kubectl /= req[r].kubectl)
                => LET n == Len(req[r].results)
                   IN /\ Len(req'[r].kubectl) = Len(req[r].kubectl) + 1
                      /\ SubSeq(req'[r].kubectl, 1, Len(req[r].kubectl)) = req[r].kubectl
                      /\ req'[r].kubectl[Len(req'[r].kubectl)].verb = "apply"
                      /\ req'[r].kubectl[Len(req'[r].kubectl)].target = req[r].yamlFiles[n + 1].Path
                      /\ req'[r].results = Append(req[r].results, req'[r].results[n + 1])]_vars

\* two artifacts were discovered and executed, and the aggregate lists the
\* failed first one before the second
C25_TwoInOrder ==
    \E r \in Aggregated :
        /\ Len(req[r].yamlFiles) = 2
        /\ req[r].yamlFiles[1].Path /= req[r].yamlFiles[2].Path
        /\ Len(req[r].kubectl) = 2
        /\ req[r].kubectl[1].target = req[r].yamlFiles[1].Path
        /\ req[r].kubectl[2].target = req[r].yamlFiles[2].Path
        /\ ~req[r].kubectl[1].ok
        /\ Aggregate(r).Results[1].Error

\* the sanitizer calls that have returned
Sanitized == {r \in DOMAIN req : req[r].fn \in Sanitizers /\ req[r].outputs /= <<>>}

\* a text without the line breaks and tabs between an object's members
Unfolded(text) == SelectSeq(text, LAMBDA c : c \notin {"\n", "\r", "\t"})

NoBrace(text) == ~Contains(text, <<"{">>) /\ ~Contains(text, <<"}">>)

CarriesApplyResult(r) ==
    /\ req[r].pc = "done"
    /\ req[r].response.status = "ok"
    /\ req[r].route = "apply" \/ req[r].entry = "GenerateAndApplyEnhanced"

\* C27: when the request's dryRun flag or the parsed intent's dryRun is
\* true, every kubectl apply or delete invocation made for the request
\* carries --dry-run=client and the result's DryRun field is true.
C27_DryRunNeverDropped ==
    \A r \in Reqs :
        (req[r].body.DryRun \/ req[r].intent.DryRun) =>
            /\ \A i \in 1..Len(req[r].kubectl) : req[r].kubectl[i].dryRun
            /\ CarriesApplyResult(r) => req[r].response.dryRun

\* a request whose own flag is false and whose parsed intent asks for a dry
\* run has applied a file with the flag and answered DryRun true
C27_IntentDryRunApplied ==
    \E r \in Reqs :
        /\ ~req[r].body.DryRun
        /\ req[r].intent.DryRun
        /\ CarriesApplyResult(r)
        /\ \E i \in 1..Len(req[r].kubectl) :
              req[r].kubectl[i].verb = "apply" /\ req[r].kubectl[i].ok
                  /\ req[r].kubectl[i].dryRun
        /\ req[r].response.dryRun

\* a delete request with the flag set has deleted a resource with it
C27_DeleteDryRun ==
    \E r \in Reqs :
        /\ req[r].body.DryRun
        /\ CarriesApplyResult(r)
        /\ \E i \in 1..Len(req[r].kubectl) :
              req[r].kubectl[i].verb = "delete" /\ req[r].kubectl[i].dryRun

\* requests whose artifacts have been handed to GitService.ApplyYamlFromGit
HandedToExecution == {r \in Reqs : req[r].pc = "apply" \/ req[r].results /= <<>>}

\* C28 as stated: every artifact handed to execution in a fetch-and-apply
\* request was classified as a Kubernetes manifest, whether it comes from
\* full discovery or was selected by filename.
C28_OnlyClassifiedExecuted ==
    \A r \in HandedToExecution :
        \A i \in 1..Len(req[r].yamlFiles) : isKubernetesYaml(req[r].yamlFiles[i].Content)

\* C28, amended: artifacts from full discovery were all classified as
\* Kubernetes manifests; a file selected by filename is handed to
\* execution whatever the classifier says, its IsKubernetes field holding
\* the classifier's answer.
C28_DiscoveredAreClassified ==
    \A r \in HandedToExecution :
        LET fs == req[r].yamlFiles
        IN /\ \A i \in 1..Len(fs) : fs[i].IsKubernetes = isKubernetesYaml(fs[i].Content)
           /\ req[r].intent.Filename = <<>> => \A i \in 1..Len(fs) : fs[i].IsKubernetes
           /\ req[r].intent.Filename /= <<>> =>
                 /\ Len(fs) = 1
                 /\ EqualFold(fs[1].Path[2], req[r].intent.Filename)

\* full discovery left out a file of an unrecognised kind and handed two
\* manifests to execution
C28_DiscoveryFiltered ==
    \E r \in HandedToExecution :
        /\ req[r].intent.Filename = <<>>
        /\ Len(req[r].yamlFiles) = 2
        /\ \E i \in 1..Len(RemoteFiles(req[r].repoDir[1])) :
              LET f == RemoteFiles(req[r].repoDir[1])[i]
              IN f.Dir /= ".git" /\ isYamlFile(f.Name) /\ f.Readable
                    /\ ~isKubernetesYaml(f.Content)

\* a file of an unrecognised kind, selected by filename, was applied
C28_NamedFileOfOtherKindApplied ==
    \E r \in HandedToExecution :
        /\ req[r].intent.Filename /= <<>>
        /\ ~req[r].yamlFiles[1].IsKubernetes
        /\ \E i \in 1..Len(req[r].kubectl) :
              req[r].kubectl[i].target = req[r].yamlFiles[1].Path /\ req[r].kubectl[i].ok

\* the handler goroutine of s waits in Close for the mutex that HandleInput,
\* further up its own stack, holds
SelfDeadlocked(s) ==
    /\ req[s].Mutex = "handler"
    /\ req[s].ops /= <<>>
    /\ Head(req[s].ops) = "Close"

\* C29: HandleInput returns and releases the session mutex for every input,
\* exit and quit and a failed message write included: the handler never
\* waits in Close for the mutex it holds itself.
C29_HandleInputNeverSelfDeadlocks == \A s \in Sessions : ~SelfDeadlocked(s)

\* the mutex is held and the next call is Close after the command exit
C29_ExitWhileLocked ==
    \E s \in Sessions : SelfDeadlocked(s) /\ req[s].InputBuffer = <<"exit">>

\* C30: DeleteContext never removes the context that is current at the
\* moment kubectl config delete-context runs, and never issues the delete
\* for a name that is not in the context list, whatever UseContext,
\* AddConfig or DeleteContext requests run beside it.
C30_DeleteSparesCurrentAndMissing ==
    \A r \in DOMAIN req :
        req[r].issued.ran => ~req[r].issued.wasCurrent /\ req[r].issued.listed

\* the delete removed the context that a concurrent UseContext had just
\* made current
C30_CurrentContextDeleted ==
    \E r \in DOMAIN req :
        /\ req[r].issued.ran /\ req[r].issued.wasCurrent /\ req[r].err = ""
        /\ \E o \in DOMAIN req \ {r} :
              req[o].entry = "UseContext" /\ req[o].ContextName = req[r].ContextName
                  /\ req[o].err = ""

\* the delete was issued for a name that a concurrent DeleteContext had
\* already removed
C30_MissingContextDeleted ==
    \E r \in DOMAIN req : req[r].issued.ran /\ ~req[r].issued.listed

====
